---- MODULE Spec2Model ----
(***************************************************************************)
(* Model of the gypsum analysis service: the HTTP handlers                 *)
(* (internal/handlers/analysis.go), the analysis service with its job      *)
(* store (internal/services/analysis.go, results map guarded by an         *)
(* RWMutex) and the external Fiji process it drives.                       *)
(*                                                                         *)
(* Granularity.  Every section of code that runs between mutex.Lock and    *)
(* mutex.Unlock (or RLock/RUnlock) is one action: the lock makes these     *)
(* sections atomic with respect to one another.  Code that touches no      *)
(* shared state is merged into the locked section that follows it.  The    *)
(* only accesses to a record made outside the lock are the field reads of  *)
(* the JSON encoder in the status handler; they are modelled one field     *)
(* group per step, in any order (a data race: the reads are unordered     *)
(* with respect to the runner's writes).                                   *)
(***************************************************************************)
EXTENDS Integers, Sequences, FiniteSets, TLC

(* ---------------------------- bounds ----------------------------------- *)
MaxJobs == 1        \* accepted submissions in one run
MaxClock == 1       \* readings of the wall clock are 0..MaxClock
MaxSubmissions == 2 \* accepted submissions in a run of SpecSubmit
MaxTenths == 150    \* parsed impurities of SpecMinerals are 0.1..MaxTenths/10
MaxReaders == 2     \* concurrent status calls in a run of FairLock

(* ------------------------- program constants --------------------------- *)
StatusPending == "pending"
StatusProcessing == "processing"
StatusCompleted == "completed"
StatusFailed == "failed"

\* A nil pointer or error is the empty sequence; &now is <<now>> and an error
\* message is a non-empty sequence of pieces.
Nil == << >>

\* uuid.New().String(): the n-th identifier issued.  Identifiers are fresh.
UUIDs == <<"0a1b2c3d-0000-4000-8000-00000000000a",
          "0a1b2c3d-0000-4000-8000-00000000000b",
          "0a1b2c3d-0000-4000-8000-00000000000c",
          "0a1b2c3d-0000-4000-8000-00000000000d">>
uuidNew(n) == UUIDs[n]
IDs == {UUIDs[n] : n \in 1..MaxJobs}

\* TEMP_DIR of the configuration
TempDir == "/tmp/gypsum-analysis"

(* ------------------------------ strings -------------------------------- *)
\* The strings whose characters the program looks at (the image path is
\* hashed character by character) are sequences of character codes.
Chars(s) ==
  CASE s = "/tmp/gypsum-analysis" ->
      <<47, 116, 109, 112, 47, 103, 121, 112, 115, 117, 109, 45, 97, 110, 97, 108, 121, 115, 105, 115>>
    [] s = ".jpg" ->
      <<46, 106, 112, 103>>
    [] s = ".PNG" ->
      <<46, 80, 78, 71>>
    [] s = ".txt" ->
      <<46, 116, 120, 116>>
    [] s = "0a1b2c3d-0000-4000-8000-00000000000a" ->
      <<48, 97, 49, 98, 50, 99, 51, 100, 45, 48, 48, 48, 48, 45,
      52, 48, 48, 48, 45, 56, 48, 48, 48, 45, 48, 48, 48, 48, 48, 48, 48, 48, 48, 48, 48, 97>>
    [] s = "0a1b2c3d-0000-4000-8000-00000000000b" ->
      <<48, 97, 49, 98, 50, 99, 51, 100, 45, 48, 48, 48, 48, 45,
      52, 48, 48, 48, 45, 56, 48, 48, 48, 45, 48, 48, 48, 48, 48, 48, 48, 48, 48, 48, 48, 98>>
    [] s = "0a1b2c3d-0000-4000-8000-00000000000c" ->
      <<48, 97, 49, 98, 50, 99, 51, 100, 45, 48, 48, 48, 48, 45,
      52, 48, 48, 48, 45, 56, 48, 48, 48, 45, 48, 48, 48, 48, 48, 48, 48, 48, 48, 48, 48, 99>>
    [] s = "0a1b2c3d-0000-4000-8000-00000000000d" ->
      <<48, 97, 49, 98, 50, 99, 51, 100, 45, 48, 48, 48, 48, 45,
      52, 48, 48, 48, 45, 56, 48, 48, 48, 45, 48, 48, 48, 48, 48, 48, 48, 48, 48, 48, 48, 100>>

\* fmt.Sprintf("%d", n) for n >= 0: the decimal digits of n, as codes
RECURSIVE Itoa(_)
Itoa(n) == IF n < 10 THEN <<48 + n>> ELSE Itoa(n \div 10) \o <<48 + (n % 10)>>

\* filepath.Join(TempDir, fmt.Sprintf("%s%s", analysisID, filepath.Ext(name)))
ImagePathOf(id, ext) == Chars(TempDir) \o <<47>> \o Chars(id) \o Chars(ext)

(* --------------------------- machine integers -------------------------- *)
\* Go's int is 64 bits wide on the platforms the service is built for.  A
\* 64-bit word is four 16-bit limbs, least significant first.
Limb == 65536
Word0 == <<0, 0, 0, 0>>

\* ((hash << 5) - hash) + int(char), wrapped to 64 bits: 31*hash + char
HashStep(h, c) ==
  LET t1 == h[1] * 31 + c
      t2 == h[2] * 31 + (t1 \div Limb)
      t3 == h[3] * 31 + (t2 \div Limb)
      t4 == h[4] * 31 + (t3 \div Limb)
  IN <<t1 % Limb, t2 % Limb, t3 % Limb, t4 % Limb>>

\* The loop of hashString over the characters i..j of input, entered with
\* hash = h ("hash = hash & hash" leaves hash as it is).  The loop over i..j
\* is the loop over the first half followed by the loop over the second
\* half; the word that leaves the first half is bound as a value before the
\* second half uses it.
RECURSIVE hashRange(_, _, _, _)
hashRange(h, input, i, j) ==
  IF i > j THEN h
  ELSE IF i = j THEN HashStep(h, input[i])
  ELSE CHOOSE r \in {hashRange(mid, input, (i + j) \div 2 + 1, j) :
                       mid \in {hashRange(h, input, i, (i + j) \div 2)}} : TRUE

hashString(input) ==
  CHOOSE hash \in {hashRange(Word0, str, 1, Len(str)) : str \in {input}} :
    TRUE

\* hash % 35 on a signed 64-bit word; Go's % truncates toward zero, so the
\* result has the sign of hash.  2^16 = 16, 2^32 = 11, 2^48 = 1 (mod 35).
WordNegative(h) == h[4] >= 32768
UnsignedMod35(h) == (h[1] + 16 * h[2] + 11 * h[3] + h[4]) % 35
Mod35(h) ==
  IF WordNegative(h)
    THEN 0 - ((16 + 35 - UnsignedMod35(h)) % 35)  \* -((2^64 - u) mod 35)
    ELSE UnsignedMod35(h)

(* ------------------------------ numbers -------------------------------- *)
\* A float64 metric is held in thousandths (85.5 is 85500); the inputs of
\* the model are chosen so that this is exact.
Milli == 1000

(* ------------------------- fallback estimators ------------------------- *)
\* fmt.Sprintf("%d-%s", imageSize, imagePath)
HashKey(imageSize, imagePath) == Itoa(imageSize) \o <<45>> \o imagePath

\* 60.0 + float64(hash%35), before the size adjustment and the clamp
BasePurity(imageSize, imagePath) ==
  (60 + Mod35(hashString(HashKey(imageSize, imagePath)))) * Milli

\* The size adjustment and the upper clamp alone, without "if purity < 30.0"
adjustPurity_noFloor(base, imageSize) ==
  LET adj == IF imageSize > 100000 THEN base + 5 * Milli
             ELSE IF imageSize < 50000 THEN base - 10 * Milli
             ELSE base
  IN IF adj > 95 * Milli THEN 95 * Milli ELSE adj

\* The size adjustment and the clamp of estimatePurityFromImage
adjustPurity(base, imageSize) ==
  LET adj == IF imageSize > 100000 THEN base + 5 * Milli
             ELSE IF imageSize < 50000 THEN base - 10 * Milli
             ELSE base
      hi == IF adj > 95 * Milli THEN 95 * Milli ELSE adj
  IN IF hi < 30 * Milli THEN 30 * Milli ELSE hi

estimatePurityFromImage(imageSize, imagePath) ==
  CHOOSE purity \in {adjustPurity(base, imageSize) :
                       base \in {BasePurity(imageSize, imagePath)}} : TRUE

\* The size adjustment and the upper clamp alone, without "if baseCount < 5"
estimateParticleCount_noFloor(imageSize) ==
  LET base == imageSize \div 2000
      adj == IF imageSize > 100000 THEN base + 15
             ELSE IF imageSize < 50000 THEN base - 10
             ELSE base
  IN IF adj > 100 THEN 100 ELSE adj

estimateParticleCount(imageSize) ==
  LET base == imageSize \div 2000
      adj == IF imageSize > 100000 THEN base + 15
             ELSE IF imageSize < 50000 THEN base - 10
             ELSE base
      lo == IF adj < 5 THEN 5 ELSE adj
  IN IF lo > 100 THEN 100 ELSE lo

estimateThreshold(imageSize) ==
  LET base == 120 * Milli + (imageSize % 60) * 500
      adj == IF imageSize > 100000 THEN base + 15 * Milli
             ELSE IF imageSize < 50000 THEN base - 20 * Milli
             ELSE base
      hi == IF adj > 200 * Milli THEN 200 * Milli ELSE adj
  IN IF hi < 80 * Milli THEN 80 * Milli ELSE hi

(* ------------------------------- text ---------------------------------- *)
\* The combined output of the process is a sequence of characters.  The
\* characters are "\n", " ", ":", "+", "-", ".", the digits and "x" (any
\* other letter); a protocol word (a sentinel or a key) is one element that
\* stands for the characters of that word.
NL == "\n"
SP == " "
COLON == ":"
Digits == {"0", "1", "2", "3", "4", "5", "6", "7", "8", "9"}
DigitVal(c) ==
  CASE c = "0" -> 0 [] c = "1" -> 1 [] c = "2" -> 2 [] c = "3" -> 3
    [] c = "4" -> 4 [] c = "5" -> 5 [] c = "6" -> 6 [] c = "7" -> 7
    [] c = "8" -> 8 [] c = "9" -> 9

RESULTS_START == <<"ANALYSIS_RESULTS_START">>
RESULTS_END == <<"ANALYSIS_RESULTS_END">>

\* strings.Index: position of the first occurrence of c, 0 when absent
IndexOf(str, c) ==
  IF \E i \in 1..Len(str) : str[i] = c
    THEN CHOOSE i \in 1..Len(str) :
           str[i] = c /\ \A j \in 1..(i - 1) : str[j] # c
    ELSE 0

\* strings.Contains(str, c)
Contains(str, c) == IndexOf(str, c) # 0

\* strings.Split(str, sep): n separators give n+1 pieces.  SplitFrom gives
\* the pieces of str from position start on; the position of the next
\* separator is bound as a value before it is used.
RECURSIVE SplitFrom(_, _, _)
SplitFrom(str, sep, start) ==
  CHOOSE pieces \in
    {IF i = 0 THEN <<SubSeq(str, start, Len(str))>>
     ELSE <<SubSeq(str, start, start + i - 2)>>
            \o SplitFrom(str, sep, start + i) :
       i \in {IndexOf(SubSeq(str, start, Len(str)), sep)}} : TRUE

Split(str, sep) == SplitFrom(str, sep, 1)

\* strings.SplitN(str, sep, 2): cut at the first separator only
SplitN2(str, sep) ==
  LET i == IndexOf(str, sep) IN
    IF i = 0 THEN <<str>>
    ELSE <<SubSeq(str, 1, i - 1), SubSeq(str, i + 1, Len(str))>>

\* strings.TrimSpace
IsSpace(c) == c \in {SP, "\t", "\r", NL}
RECURSIVE TrimLeft(_)
TrimLeft(str) ==
  IF str # << >> /\ IsSpace(Head(str)) THEN TrimLeft(Tail(str)) ELSE str
RECURSIVE TrimRight(_)
TrimRight(str) ==
  IF str # << >> /\ IsSpace(str[Len(str)])
    THEN TrimRight(SubSeq(str, 1, Len(str) - 1)) ELSE str
TrimSpace(str) == TrimRight(TrimLeft(str))

\* The value of the first n digits of a run, most significant first
RECURSIVE DigitsValueTo(_, _)
DigitsValueTo(ds, n) ==
  IF n = 0 THEN 0 ELSE DigitsValueTo(ds, n - 1) * 10 + DigitVal(ds[n])

DigitsValue(ds) == DigitsValueTo(ds, Len(ds))

AllDigits(ds) == \A i \in 1..Len(ds) : ds[i] \in Digits

\* An optional leading sign, split off
SignOf(str) == IF str # << >> /\ Head(str) = "-" THEN 0 - 1 ELSE 1
Unsigned(str) ==
  IF str # << >> /\ Head(str) \in {"+", "-"} THEN Tail(str) ELSE str

\* strconv.Atoi: an optional sign and at least one digit, nothing else
Atoi(str) ==
  LET ds == Unsigned(str) IN
    IF ds # << >> /\ AllDigits(ds)
      THEN [ok |-> TRUE, val |-> SignOf(str) * DigitsValue(ds)]
      ELSE [ok |-> FALSE, val |-> 0]

\* strconv.ParseFloat(str, 64) on the characters above: an optional sign,
\* digits with at most one ".", at least one digit.  The value is returned in
\* thousandths (fraction digits beyond the third are dropped; the outputs of
\* the model have none).
RECURSIVE Pow10(_)
Pow10(n) == IF n = 0 THEN 1 ELSE 10 * Pow10(n - 1)
ParseFloat(str) ==
  LET body == Unsigned(str)
      dot == IndexOf(body, ".")
      int == IF dot = 0 THEN body ELSE SubSeq(body, 1, dot - 1)
      frac == IF dot = 0 THEN << >> ELSE SubSeq(body, dot + 1, Len(body))
      used == SubSeq(frac, 1, IF Len(frac) > 3 THEN 3 ELSE Len(frac))
      wellFormed == /\ AllDigits(int) /\ AllDigits(frac)
                    /\ Len(int) + Len(frac) > 0
  IN IF wellFormed
       THEN [ok |-> TRUE,
             val |-> SignOf(str) * (DigitsValue(int) * Milli
                       + DigitsValue(used) * Pow10(3 - Len(used)))]
       ELSE [ok |-> FALSE, val |-> 0]

(* ----------------------------- float64 sums ---------------------------- *)
\* calculateConfidence adds the float64 constants 0.5, 0.2 and 0.1, none of
\* which but 0.5 is a binary fraction.  A float64 in [0.5, 2) is held as an
\* exact count of units of 2^-56, in two digits of base 2^28: <<hi, lo>>.
F64Digit == 268435456
F0_5 == <<134217728, 0>>          \* 0.5 = 2^55 units
F1_0 == <<268435456, 0>>          \* 1.0 = 2^56 units
F0_2 == <<53687091, 53687092>>    \* float64(0.2) = 0x1999999999999A * 2^-55
F0_1 == <<26843545, 161061274>>   \* float64(0.1) = 0x1999999999999A * 2^-56
FZero == <<0, 0>>

\* a > b
FGreater(a, b) == a[1] > b[1] \/ (a[1] = b[1] /\ a[2] > b[2])

\* a + b in float64 for operands given as values: the exact sum, rounded
\* to nearest, ties to even.  The spacing of float64 is 2^-53 (8 units)
\* below 1.0 and 2^-52 (16) from 1.0.
FSum(a, b) ==
  LET lo0 == a[2] + b[2]
      hi0 == a[1] + b[1] + (lo0 \div F64Digit)
      lo == lo0 % F64Digit
      g == IF hi0 >= F1_0[1] THEN 16 ELSE 8
      r == lo % g
      q == lo \div g
      up == (2 * r > g) \/ (2 * r = g /\ q % 2 = 1)
      lo1 == IF up THEN lo - r + g ELSE lo - r
  IN <<hi0 + (lo1 \div F64Digit), lo1 % F64Digit>>

\* a + b in float64; each operand is evaluated once
FAdd(a, b) == CHOOSE sum \in {FSum(x, y) : x \in {a}, y \in {b}} : TRUE

(* ------------------------------ the parser ----------------------------- *)
(* ------------------------- float64 products ---------------------------- *)
\* The mineral contents are float64 products.  A natural number is held
\* as eight digits of base 2^14, least significant first (112 bits); a
\* positive float64 is m * 2^e with 2^52 <= m < 2^53.
Digit14 == 16384
BigZero == <<0, 0, 0, 0, 0, 0, 0, 0>>
BigOf(n) == <<n % Digit14, n \div Digit14, 0, 0, 0, 0, 0, 0>>

RECURSIVE Pow2(_)
Pow2(n) == IF n = 0 THEN 1 ELSE 2 * Pow2(n - 1)

\* Digit i of a, 0 outside 1..8
DigitAt(a, i) == IF i \in 1..8 THEN a[i] ELSE 0

RECURSIVE BigCarry(_, _, _, _)
BigCarry(cols, i, carry, acc) ==
  IF i > 8 THEN acc
  ELSE BigCarry(cols, i + 1, (cols[i] + carry) \div Digit14,
                Append(acc, (cols[i] + carry) % Digit14))

BigAdd(a, b) == BigCarry([i \in 1..8 |-> a[i] + b[i]], 1, 0, << >>)

\* The product of two numbers below 2^56
BigMul(a, b) ==
  LET col(k) == IF k = 8 THEN 0
                ELSE DigitAt(a, 1) * DigitAt(b, k)
                   + DigitAt(a, 2) * DigitAt(b, k - 1)
                   + DigitAt(a, 3) * DigitAt(b, k - 2)
                   + DigitAt(a, 4) * DigitAt(b, k - 3)
  IN BigCarry([k \in 1..8 |-> col(k)], 1, 0, << >>)

\* a shifted right and left by s bits
BigShr(a, s) ==
  LET k == s \div 14
      t == s % 14
  IN [i \in 1..8 |->
        (DigitAt(a, i + k) \div Pow2(t))
          + (DigitAt(a, i + k + 1) % Pow2(t)) * Pow2(14 - t)]
BigShl(a, s) ==
  LET k == s \div 14
      t == s % 14
  IN [i \in 1..8 |->
        (DigitAt(a, i - k) % Pow2(14 - t)) * Pow2(t)
          + (DigitAt(a, i - k - 1) \div Pow2(14 - t))]

\* The number of bits of a
RECURSIVE BitsOf(_)
BitsOf(n) == IF n = 0 THEN 0 ELSE 1 + BitsOf(n \div 2)
BigBits(a) ==
  IF a = BigZero THEN 0
  ELSE LET top == CHOOSE i \in 1..8 :
                    a[i] # 0 /\ \A j \in (i + 1)..8 : a[j] = 0
       IN 14 * (top - 1) + BitsOf(a[top])

BigBit(a, n) == (a[n \div 14 + 1] \div Pow2(n % 14)) % 2

\* a divided by the small number d, and whether the division is exact
RECURSIVE BigDivFrom(_, _, _, _, _)
BigDivFrom(a, d, i, rem, acc) ==
  IF i = 0 THEN [q |-> acc, exact |-> rem = 0]
  ELSE BigDivFrom(a, d, i - 1, (rem * Digit14 + a[i]) % d,
                  <<(rem * Digit14 + a[i]) \div d>> \o acc)
BigDiv(a, d) == BigDivFrom(a, d, 8, 0, << >>)

\* The float64 nearest to p * 2^e (p > 0), ties to even
F64Round(p, e) ==
  LET n == BigBits(p)
      s == n - 53
      q == BigShr(p, s)
      half == BigBit(p, s - 1) = 1
      rest == BigShl(BigShr(p, s - 1), s - 1) # p
      roundUp == half /\ (rest \/ q[1] % 2 = 1)
      q1 == IF roundUp THEN BigAdd(q, BigOf(1)) ELSE q
  IN IF n <= 53 THEN [m |-> BigShl(p, 53 - n), e |-> e - (53 - n)]
     ELSE IF BigBits(q1) = 54 THEN [m |-> BigShr(q1, 1), e |-> e + s + 1]
     ELSE [m |-> q1, e |-> e + s]

\* x * y and x + y in float64
F64Mul(x, y) == F64Round(BigMul(x.m, y.m), x.e + y.e)
F64Add(x, y) ==
  LET e0 == IF x.e < y.e THEN x.e ELSE y.e
  IN F64Round(BigAdd(BigShl(x.m, x.e - e0), BigShl(y.m, y.e - e0)), e0)

\* The float64 nearest to n / d, for 0 < n < 2^14 and 0 < d < 2^14: what
\* strconv.ParseFloat returns for the decimal n/10, and what the compiler
\* makes of the constants 0.3 and 0.2.  The quotient of n * 2^70 by d is
\* given one more bit, set when the division is not exact.
F64Ratio(n, d) ==
  LET quot == BigDiv(BigShl(BigOf(n), 70), d)
      twice == BigShl(quot.q, 1)
      p == IF quot.exact THEN twice ELSE BigAdd(twice, BigOf(1))
  IN F64Round(p, 0 - 71)

\* The locals of parseFijiResults while it scans the lines: the results
\* map, particleCount and inResults.
ParseStart == [results |-> << >>, particleCount |-> 0, inResults |-> FALSE]

\* results[key] with Go's zero value for a missing key
MapGet(m, key) == IF key \in DOMAIN m THEN m[key] ELSE 0

\* The body of "if len(parts) == 2" with both err results ignored: the
\* value returned with the error (0) is stored
parsePair_errIgnored(key, valueStr, st) ==
  IF key = <<"particle_count">>
    THEN [st EXCEPT !.particleCount = Atoi(valueStr).val]
    ELSE [st EXCEPT !.results =
            (key :> ParseFloat(valueStr).val) @@ st.results]

\* The body of "if len(parts) == 2": the locals after key and valueStr
parsePair(key, valueStr, st) ==
  IF key = <<"particle_count">>
    THEN IF Atoi(valueStr).ok
           THEN [st EXCEPT !.particleCount = Atoi(valueStr).val]
           ELSE st
    ELSE IF ParseFloat(valueStr).ok
           THEN [st EXCEPT !.results =
                   (key :> ParseFloat(valueStr).val) @@ st.results]
           ELSE st

\* The body of the loop for a line that contains ":" inside the block
parseLine(line, st) ==
  CHOOSE after \in
    {IF Len(parts) = 2 THEN parsePair(parts[1], parts[2], st) ELSE st :
       parts \in {SplitN2(line, COLON)}} : TRUE

\* The loop body without the inResults test
parseStep_noGate(line, st) ==
  IF line = RESULTS_START
    THEN [go |-> TRUE, st |-> [st EXCEPT !.inResults = TRUE]]
  ELSE IF line = RESULTS_END
    THEN [go |-> FALSE, st |-> st]
  ELSE IF Contains(line, COLON)
    THEN [go |-> TRUE, st |-> parseLine(line, st)]
  ELSE [go |-> TRUE, st |-> st]

\* One iteration of the scanning loop of parseFijiResults on a line, already
\* trimmed: the locals after it, and whether the loop goes on (break stops
\* it)
parseStep(line, st) ==
  IF line = RESULTS_START
    THEN [go |-> TRUE, st |-> [st EXCEPT !.inResults = TRUE]]
  ELSE IF line = RESULTS_END
    THEN [go |-> FALSE, st |-> st]
  ELSE IF st.inResults /\ Contains(line, COLON)
    THEN [go |-> TRUE, st |-> parseLine(line, st)]
  ELSE [go |-> TRUE, st |-> st]

\* The scan loop if the values read were kept only once the end sentinel is met
RECURSIVE parseLoop_needsEnd(_, _, _)
parseLoop_needsEnd(lines, i, st) ==
  IF i > Len(lines) THEN (IF st.inResults THEN ParseStart ELSE st)
  ELSE CHOOSE final \in
         {IF step.go THEN parseLoop_needsEnd(lines, i + 1, step.st)
                     ELSE step.st :
            step \in {parseStep(line, st) :
                        line \in {TrimSpace(lines[i])}}} : TRUE

\* The scanning loop of parseFijiResults, from line i on.  The outcome of an
\* iteration is bound as a value before the next iteration uses it.
RECURSIVE parseLoop(_, _, _)
parseLoop(lines, i, st) ==
  IF i > Len(lines) THEN st
  ELSE CHOOSE final \in
         {IF step.go THEN parseLoop(lines, i + 1, step.st) ELSE step.st :
            step \in {parseStep(line, st) :
                        line \in {TrimSpace(lines[i])}}} : TRUE

parseOutput(out) ==
  CHOOSE final \in {parseLoop(lines, 1, ParseStart) :
                      lines \in {Split(out, NL)}} : TRUE

\* calculateConfidence without the coverage bonus
calculateConfidence_noCoverage(res, particleCount) ==
  LET c0 == F0_5
      c1 == IF particleCount > 10 THEN FAdd(c0, F0_2) ELSE c0
      c2 == IF particleCount > 50 THEN FAdd(c1, F0_2) ELSE c1
  IN IF FGreater(c2, F1_0) THEN F1_0 ELSE c2

\* calculateConfidence(results, particleCount)
calculateConfidence(res, particleCount) ==
  LET c0 == F0_5
      c1 == IF particleCount > 10 THEN FAdd(c0, F0_2) ELSE c0
      c2 == IF particleCount > 50 THEN FAdd(c1, F0_2) ELSE c1
      total == MapGet(res, <<"total_area">>)
      image == MapGet(res, <<"image_area">>)
      \* coverage := total/image; coverage > 0.1 && coverage < 0.9
      covered == /\ total > 0 /\ image > 0
                 /\ 10 * total > image /\ 10 * total < 9 * image
      c3 == IF covered THEN FAdd(c2, F0_1) ELSE c2
  IN IF FGreater(c3, F1_0) THEN F1_0 ELSE c3

\* results[key] > 0 with exists, the test of every "if" of the locked section
Parsed(res, key) == key \in DOMAIN res /\ res[key] > 0

\* PurityPercentage with the test "exists" alone: a parsed value is kept
\* whatever its sign
purityOf_keepNonPositive(result, res) ==
  IF <<"purity_percentage">> \in DOMAIN res
    THEN res[<<"purity_percentage">>]
    ELSE estimatePurityFromImage(result.ImageSize, result.ImagePath)

\* PurityPercentage as the locked section of parseFijiResults sets it
purityOf(result, res) ==
  IF Parsed(res, <<"purity_percentage">>)
    THEN res[<<"purity_percentage">>]
    ELSE estimatePurityFromImage(result.ImageSize, result.ImagePath)

impurityOf_keepNonPositive(res, purity) ==
  IF <<"impurity_content">> \in DOMAIN res
    THEN res[<<"impurity_content">>]
    ELSE 100 * Milli - purity

\* ImpurityContent as the locked section sets it, after PurityPercentage
impurityOf(res, purity) ==
  IF Parsed(res, <<"impurity_content">>)
    THEN res[<<"impurity_content">>]
    ELSE 100 * Milli - purity

\* The locked section of parseFijiResults without its last three
\* assignments (the mineral contents)
storeParsed_noMinerals(result, p, purity, impurity, analysisTime) ==
  [result EXCEPT
     !.PurityPercentage = purity,
     !.GypsumContent = IF Parsed(p.results, <<"gypsum_content">>)
                         THEN p.results[<<"gypsum_content">>] ELSE purity,
     !.ImpurityContent = impurity,
     !.ParticleCount = IF p.particleCount > 0 THEN p.particleCount
                       ELSE estimateParticleCount(result.ImageSize),
     !.ThresholdValue = IF Parsed(p.results, <<"threshold_value">>)
                          THEN p.results[<<"threshold_value">>]
                          ELSE estimateThreshold(result.ImageSize),
     !.AnalysisTime = analysisTime,
     !.Confidence = calculateConfidence(p.results, p.particleCount)]

\* The locked section of parseFijiResults, given the locals the loop left
\* (p) and the two values the later assignments read back
storeParsed(result, p, purity, impurity, analysisTime) ==
  [result EXCEPT
     !.PurityPercentage = purity,
     !.GypsumContent = IF Parsed(p.results, <<"gypsum_content">>)
                         THEN p.results[<<"gypsum_content">>] ELSE purity,
     !.ImpurityContent = impurity,
     !.ParticleCount = IF p.particleCount > 0 THEN p.particleCount
                       ELSE estimateParticleCount(result.ImageSize),
     !.ThresholdValue = IF Parsed(p.results, <<"threshold_value">>)
                          THEN p.results[<<"threshold_value">>]
                          ELSE estimateThreshold(result.ImageSize),
     !.AnalysisTime = analysisTime,
     !.Confidence = calculateConfidence(p.results, p.particleCount),
     !.CalciteContent = (impurity * 3) \div 10,
     !.QuartzContent = (impurity * 2) \div 10,
     !.OtherMinerals = (impurity * 5) \div 10]

\* parseFijiResults: the record after the scan and the locked update.  Each
\* intermediate value is bound once, as the code computes it once.
parseFijiResults(result, out, analysisTime) ==
  CHOOSE updated \in
    UNION UNION
      {{{storeParsed(result, p, purity, impurity, analysisTime) :
           impurity \in {impurityOf(p.results, purity)}} :
          purity \in {purityOf(result, p.results)}} :
         p \in {parseOutput(out)}} : TRUE

\* updateResultWithError without "result.Error = errorMsg"
updateResultWithError_noError(result, errorMsg, now) ==
  [result EXCEPT !.Status = StatusFailed, !.CompletedAt = <<now>>]

\* The locked section of updateResultWithError, for a record that exists
updateResultWithError(result, errorMsg, now) ==
  [result EXCEPT !.Status = StatusFailed, !.Error = errorMsg,
                 !.CompletedAt = <<now>>]

\* The completing section without "result.CompletedAt = &now"
markCompleted_noTime(result, now, analysisTime) ==
  [result EXCEPT !.Status = StatusCompleted, !.AnalysisTime = analysisTime]

\* The locked section that ends performFijiAnalysis ("Mark analysis as
\* completed")
markCompleted(result, now, analysisTime) ==
  [result EXCEPT !.Status = StatusCompleted, !.CompletedAt = <<now>>,
                 !.AnalysisTime = analysisTime]

(* --------------------------- input domains ----------------------------- *)
\* The multipart form of a submission: c.FormFile("image") fails when the
\* form has no "image" part; otherwise the header carries a file name (of
\* which only the extension matters) and a declared size.
NoFile == [present |-> FALSE, ext |-> "", size |-> 0]
\* MAX_FILE_SIZE of the configuration (its default, 50 MB)
MaxFileSize == 52428800
Uploads == {NoFile,
            [present |-> TRUE, ext |-> ".txt", size |-> 40000],
            [present |-> TRUE, ext |-> ".jpg", size |-> 40000],
            [present |-> TRUE, ext |-> ".PNG", size |-> 120000],
            [present |-> TRUE, ext |-> ".jpg", size |-> MaxFileSize + 1]}

\* strings.ToLower on the extensions above
ToLower(e) == IF e = ".PNG" THEN ".png" ELSE e

\* One "key:value" line of the output protocol
KV(key, value) == <<key, COLON>> \o value \o <<NL>>

\* Combined outputs of a process that exits with status 0
OutEmpty == << >>
OutGarbled == <<"x", "x", SP, "x", COLON, "1", NL, "x", NL>>
OutWellFormed ==
  <<"x", SP, "x", NL>> \o RESULTS_START \o <<NL>>
    \o KV("purity_percentage", <<"8", "5", ".", "5">>)
    \o KV("particle_count", <<"4", "5">>)
    \o KV("total_area", <<"1", "2", "5", "0", "0", "0">>)
    \o KV("image_area", <<"1", "5", "0", "0", "0", "0">>)
    \o KV("threshold_value", <<"1", "2", "8", ".", "5">>)
    \o RESULTS_END \o <<NL>>
OutNoStart ==
  KV("purity_percentage", <<"8", "5", ".", "5">>)
    \o KV("particle_count", <<"4", "5">>)
    \o RESULTS_END \o <<NL>>
\* what the generated macro prints when it finds no particle
OutZeroBlock ==
  RESULTS_START \o <<NL>>
    \o KV("purity_percentage", <<"0">>)
    \o KV("gypsum_content", <<"0">>)
    \o KV("impurity_content", <<"1", "0", "0">>)
    \o KV("particle_count", <<"0">>)
    \o KV("total_area", <<"0">>)
    \o KV("image_area", <<"1", "5", "0", "0", "0", "0">>)
    \o KV("threshold_value", <<"0">>)
    \o RESULTS_END \o <<NL>>
SuccessOutputs == {OutEmpty, OutGarbled, OutWellFormed, OutNoStart,
                   OutZeroBlock}
\* Combined output of a process that fails or is killed
OutStderr == <<"x", "x", "x", NL>>

\* Outcomes of saveUploadedFile: nil or one of its three wrapped errors
SaveOutcomes == {"ok", "failed to open uploaded file: ",
                 "failed to create destination file: ",
                 "failed to copy file content: "}
\* Outcomes of os.WriteFile in createGypsumAnalysisMacro
MacroOutcomes == {"ok", "open: permission denied"}

(* ------------------------------ state ---------------------------------- *)
VARIABLES
  results,      \* AnalysisService.results: id -> *AnalysisResult (the pointee)
  issued,       \* number of identifiers issued by uuid.New so far
  hpc,          \* per id: position of the AnalyzeGypsum handler call
  pc,           \* per id: position of the background goroutine (the runner)
  upload,       \* per id: the *multipart.FileHeader captured by the goroutine
  ctx,          \* per id: the context.WithTimeout of AnalyzeGypsumImage
  saved,        \* per id: outcome of saveUploadedFile
  macro,        \* per id: the instruction script <id>_macro.ijm on disk
  proc,         \* per id: the external Fiji process
  output,       \* per id: the combined output returned by CombinedOutput
  startTime,    \* per id: local startTime of performFijiAnalysis
  analysisTime, \* per id: local analysisTime of performFijiAnalysis
  retErr,       \* per id: the error value a returned call hands to its caller
  rejected,     \* the error of the last submission answered 400
  clock,        \* the wall clock read by time.Now
  rd,           \* the status request in progress (GetAnalysisStatus handler)
  up,           \* the service process is alive (main has not returned)
  mutex         \* AnalysisService.mutex, the sync.RWMutex of the store

vars == <<results, issued, hpc, pc, upload, ctx, saved, macro, proc, output,
          startTime, analysisTime, retErr, rejected, clock, rd, up, mutex>>

runnerVars == <<pc, ctx, saved, macro, proc, output, startTime, analysisTime,
                retErr>>

\* The sync.RWMutex of the store: w is the goroutine that is inside Lock (it
\* holds the writer mutex and keeps new readers out), held says that its Lock
\* has returned, r is the set of status calls that hold a read lock and rq
\* the set of status calls that are inside RLock.
FreeMutex == [w |-> "", held |-> FALSE, r |-> {}, rq |-> {}]

(* ------------------------------ records -------------------------------- *)
\* A string built by fmt.Sprintf is the sequence of the pieces it
\* concatenates; the empty string is the empty sequence.
EmptyString == << >>

\* models.AnalysisResult as built at the top of AnalyzeGypsumImage: the
\* fields not named in the literal hold their zero values.
NewAnalysisResult(id, now, size) ==
  [ID |-> id, Status |-> StatusProcessing, CreatedAt |-> now,
   CompletedAt |-> Nil, Error |-> EmptyString,
   PurityPercentage |-> 0, Confidence |-> FZero,
   ImagePath |-> EmptyString, ImageSize |-> size, AnalysisTime |-> 0,
   GypsumContent |-> 0, ImpurityContent |-> 0, CalciteContent |-> 0,
   QuartzContent |-> 0, OtherMinerals |-> 0,
   ThresholdValue |-> 0, ParticleCount |-> 0, AverageParticleSize |-> 0]

IsTerminal(st) == st \in {StatusCompleted, StatusFailed}

(* ---------------------------- the clock -------------------------------- *)
Tick ==
  /\ clock < MaxClock
  /\ clock' = clock + 1
  /\ UNCHANGED <<results, issued, hpc, upload, rejected, rd>>
  /\ UNCHANGED runnerVars
  /\ UNCHANGED <<up, mutex>>

(* ----------------- AnalysisHandler.AnalyzeGypsum ----------------------- *)
ValidExt(e) == e \in {".jpg", ".jpeg", ".png", ".tiff", ".tif"}

\* The request is answered 400: no "image" part, or an extension that is
\* not an accepted one after lower-casing.
AnalyzeGypsumReject(f) ==
  /\ \/ ~f.present
     \/ ~ValidExt(ToLower(f.ext))
  /\ rejected' = IF ~f.present THEN "No image file provided"
                 ELSE "Unsupported file type"
  /\ UNCHANGED <<results, issued, hpc, upload, clock, rd>>
  /\ UNCHANGED runnerVars
  /\ UNCHANGED <<up, mutex>>

\* The handler without the extension test of lines 42-48
AnalyzeGypsumSpawn_noExtCheck(f) ==
  /\ f.present
  /\ issued < MaxJobs
  /\ LET id == uuidNew(issued + 1) IN
       /\ issued' = issued + 1
       /\ hpc' = [hpc EXCEPT ![id] = "spawned"]
       /\ pc' = [pc EXCEPT ![id] = "insert"]
       /\ upload' = [upload EXCEPT ![id] = f]
  /\ UNCHANGED <<results, rejected, clock, rd>>
  /\ UNCHANGED <<ctx, saved, macro, proc, output, startTime, analysisTime,
                 retErr>>
  /\ UNCHANGED <<up, mutex>>

\* Lines 50-58 with an identifier that is not fresh: the one issued first
\* is handed out again
AnalyzeGypsumSpawnUnder_sameId(f, limit) ==
  /\ f.present
  /\ ValidExt(ToLower(f.ext))
  /\ issued < limit
  /\ LET id == uuidNew(1) IN
       /\ issued' = issued + 1
       /\ hpc' = [hpc EXCEPT ![id] = "spawned"]
       /\ pc' = [pc EXCEPT ![id] = "insert"]
       /\ upload' = [upload EXCEPT ![id] = f]
  /\ UNCHANGED <<results, rejected, clock, rd>>
  /\ UNCHANGED <<ctx, saved, macro, proc, output, startTime, analysisTime,
                 retErr>>
  /\ UNCHANGED <<up, mutex>>

\* Validation passes: a fresh identifier is generated and the goroutine that
\* will call AnalyzeGypsumImage is started.  The handler has not answered yet.
\* No more than limit submissions are accepted in a run.
AnalyzeGypsumSpawnUnder(f, limit) ==
  /\ f.present
  /\ ValidExt(ToLower(f.ext))
  /\ issued < limit
  /\ LET id == uuidNew(issued + 1) IN
       /\ issued' = issued + 1
       /\ hpc' = [hpc EXCEPT ![id] = "spawned"]
       /\ pc' = [pc EXCEPT ![id] = "insert"]
       /\ upload' = [upload EXCEPT ![id] = f]
  /\ UNCHANGED <<results, rejected, clock, rd>>
  /\ UNCHANGED <<ctx, saved, macro, proc, output, startTime, analysisTime,
                 retErr>>
  /\ UNCHANGED <<up, mutex>>

AnalyzeGypsumSpawn(f) == AnalyzeGypsumSpawnUnder(f, MaxJobs)

\* c.JSON(202, {analysis_id, status: "processing", ...}): the caller now
\* holds the identifier.
AnalyzeGypsumRespond(id) ==
  /\ hpc[id] = "spawned"
  /\ hpc' = [hpc EXCEPT ![id] = "returned"]
  /\ UNCHANGED <<results, issued, upload, rejected, clock, rd>>
  /\ UNCHANGED runnerVars
  /\ UNCHANGED <<up, mutex>>

(* ------------------- AnalysisService.AnalyzeGypsumImage ---------------- *)
\* time.Now()
Now == clock

\* Lines 40-54: build the record, store it under the lock, arm the timeout.
AnalyzeGypsumImage_insert(id) ==
  /\ pc[id] = "insert"
  /\ results' = (id :> NewAnalysisResult(id, Now, upload[id].size)) @@ results
  /\ ctx' = [ctx EXCEPT ![id] = "armed"]
  /\ pc' = [pc EXCEPT ![id] = "save"]
  /\ UNCHANGED <<issued, hpc, upload, saved, macro, proc, output, startTime,
                 analysisTime, retErr, rejected, clock, rd>>
  /\ UNCHANGED <<up, mutex>>

\* An update that fails every record that is still Processing, not only the
\* one of the job
FailInStore_everyJob(id, errorMsg) ==
  [j \in DOMAIN results |->
     IF j = id \/ results[j].Status = StatusProcessing
       THEN updateResultWithError(results[j], errorMsg, Now)
       ELSE results[j]]

\* s.results after updateResultWithError(id, errorMsg): the record is
\* updated when it exists, the store is left alone otherwise
FailInStore(id, errorMsg) ==
  IF id \in DOMAIN results
    THEN [results EXCEPT
            ![id] = updateResultWithError(results[id], errorMsg, Now)]
    ELSE results

\* The save-failure branch without its "return": the job is failed, then
\* the call goes on to the analysis.
AnalyzeGypsumImage_saveFailed_noReturn(id, e) ==
  /\ pc[id] = "save"
  /\ e # "ok"
  /\ LET msg == <<"Failed to save uploaded file: ", e>> IN
       /\ results' = FailInStore(id, msg)
       /\ retErr' = [retErr EXCEPT ![id] = msg]
  /\ saved' = [saved EXCEPT ![id] = "failed"]
  /\ pc' = [pc EXCEPT ![id] = "macro"]
  /\ UNCHANGED <<issued, hpc, upload, ctx, macro, proc, output, startTime,
                 analysisTime, rejected, clock, rd>>
  /\ UNCHANGED <<up, mutex>>

\* Lines 56-60: saveUploadedFile fails with e; the job is failed and the
\* call returns (the deferred cancel releases the context).
AnalyzeGypsumImage_saveFailed(id, e) ==
  /\ pc[id] = "save"
  /\ e # "ok"
  /\ LET msg == <<"Failed to save uploaded file: ", e>> IN
       /\ results' = FailInStore(id, msg)
       /\ retErr' = [retErr EXCEPT ![id] = msg]
  /\ saved' = [saved EXCEPT ![id] = "failed"]
  /\ ctx' = [ctx EXCEPT ![id] = "cancelled"]
  /\ pc' = [pc EXCEPT ![id] = "done"]
  /\ UNCHANGED <<issued, hpc, upload, macro, proc, output, startTime,
                 analysisTime, rejected, clock, rd>>
  /\ UNCHANGED <<up, mutex>>

\* Lines 56-65: saveUploadedFile succeeds; the path is written to the record
\* under the lock.
AnalyzeGypsumImage_saved(id) ==
  /\ pc[id] = "save"
  /\ saved' = [saved EXCEPT ![id] = "ok"]
  /\ results' = [results EXCEPT
                   ![id].ImagePath = ImagePathOf(id, upload[id].ext)]
  /\ pc' = [pc EXCEPT ![id] = "macro"]
  /\ UNCHANGED <<issued, hpc, upload, ctx, macro, proc, output, startTime,
                 analysisTime, retErr, rejected, clock, rd>>
  /\ UNCHANGED <<up, mutex>>

AnalyzeGypsumImage_failed_nil(id) ==
  /\ pc[id] = "pfa_returned_err"
  /\ results' = FailInStore(id, <<"Analysis failed: ">> \o retErr[id])
  /\ retErr' = [retErr EXCEPT ![id] = Nil]
  /\ ctx' = [ctx EXCEPT ![id] = "cancelled"]
  /\ pc' = [pc EXCEPT ![id] = "done"]
  /\ UNCHANGED <<issued, hpc, upload, saved, macro, proc, output, startTime,
                 analysisTime, rejected, clock, rd>>
  /\ UNCHANGED <<up, mutex>>

\* Line 69 replaced by a retry: on an error of performFijiAnalysis the call
\* is made again
AnalyzeGypsumImage_failed_retry(id) ==
  /\ pc[id] = "pfa_returned_err"
  /\ pc' = [pc EXCEPT ![id] = "macro"]
  /\ UNCHANGED <<results, issued, hpc, upload, ctx, saved, macro, proc,
                 output, startTime, analysisTime, retErr, rejected, clock, rd>>
  /\ UNCHANGED <<up, mutex>>

\* Line 69: performFijiAnalysis returned an error; the job is failed with
\* the wrapped message and AnalyzeGypsumImage returns.
AnalyzeGypsumImage_failed(id) ==
  /\ pc[id] = "pfa_returned_err"
  /\ LET msg == <<"Analysis failed: ">> \o retErr[id] IN
       /\ results' = FailInStore(id, msg)
       /\ retErr' = [retErr EXCEPT ![id] = msg]
  /\ ctx' = [ctx EXCEPT ![id] = "cancelled"]
  /\ pc' = [pc EXCEPT ![id] = "done"]
  /\ UNCHANGED <<issued, hpc, upload, saved, macro, proc, output, startTime,
                 analysisTime, rejected, clock, rd>>
  /\ UNCHANGED <<up, mutex>>

(* ------------------- AnalysisService.performFijiAnalysis --------------- *)
\* Lines 112-119: startTime is read, the macro file is written and its
\* removal is deferred.
performFijiAnalysis_macro(id) ==
  /\ pc[id] = "macro"
  /\ startTime' = [startTime EXCEPT ![id] = Now]
  /\ macro' = [macro EXCEPT ![id] = "written"]
  /\ pc' = [pc EXCEPT ![id] = "start"]
  /\ UNCHANGED <<results, issued, hpc, upload, ctx, saved, proc, output,
                 analysisTime, retErr, rejected, clock, rd>>
  /\ UNCHANGED <<up, mutex>>

\* Lines 112-118: os.WriteFile fails with e; performFijiAnalysis returns
\* the wrapped error without touching the record (startTime is not used on
\* this path).
performFijiAnalysis_macroFailed(id, e) ==
  /\ pc[id] = "macro"
  /\ e # "ok"
  /\ macro' = [macro EXCEPT ![id] = "failed"]
  /\ retErr' = [retErr EXCEPT
                  ![id] = <<"failed to create analysis macro: ", e>>]
  /\ pc' = [pc EXCEPT ![id] = "pfa_returned_err"]
  /\ UNCHANGED <<results, issued, hpc, upload, ctx, saved, proc, output,
                 startTime, analysisTime, rejected, clock, rd>>
  /\ UNCHANGED <<up, mutex>>

\* Lines 122-123, first half: cmd.CombinedOutput starts the process.  Start
\* refuses when the context is already done, and may fail on its own (the
\* executable cannot be run).
performFijiAnalysis_start(id, ok) ==
  /\ pc[id] = "start"
  /\ proc' = [proc EXCEPT ![id] =
                IF ctx[id] = "expired" THEN "ctx_done"
                ELSE IF ok THEN "running" ELSE "start_failed"]
  /\ pc' = [pc EXCEPT ![id] = "wait"]
  /\ UNCHANGED <<results, issued, hpc, upload, ctx, saved, macro, output,
                 startTime, analysisTime, retErr, rejected, clock, rd>>
  /\ UNCHANGED <<up, mutex>>

\* The err of cmd.CombinedOutput, as %v prints it
ProcErrText(p) ==
  CASE p = "exit_nonzero" -> "exit status 1"
    [] p = "killed" -> "signal: killed"
    [] p = "start_failed" -> "fork/exec: no such file or directory"
    [] p = "ctx_done" -> "context deadline exceeded"

ProcFailed(p) == p \in {"exit_nonzero", "killed", "start_failed", "ctx_done"}

\* The err != nil branch with a message that leaves err out
performFijiAnalysis_failed_noErrText(id) ==
  /\ pc[id] = "wait"
  /\ ProcFailed(proc[id])
  /\ LET msg == <<"Fiji execution failed">> IN
       /\ results' = FailInStore(id, msg)
       /\ retErr' = [retErr EXCEPT ![id] = msg]
  /\ macro' = [macro EXCEPT ![id] = "removed"]
  /\ pc' = [pc EXCEPT ![id] = "pfa_returned_err"]
  /\ UNCHANGED <<issued, hpc, upload, ctx, saved, proc, output, startTime,
                 analysisTime, rejected, clock, rd>>
  /\ UNCHANGED <<up, mutex>>

\* The err != nil branch with os.Remove called at the end of the function
\* instead of deferred: the early return skips it.
performFijiAnalysis_failed_noRemove(id) ==
  /\ pc[id] = "wait"
  /\ ProcFailed(proc[id])
  /\ LET msg == <<"Fiji execution failed: ", ProcErrText(proc[id])>> IN
       /\ results' = FailInStore(id, msg)
       /\ retErr' = [retErr EXCEPT ![id] = msg]
  /\ pc' = [pc EXCEPT ![id] = "pfa_returned_err"]
  /\ UNCHANGED <<issued, hpc, upload, ctx, saved, macro, proc, output,
                 startTime, analysisTime, rejected, clock, rd>>
  /\ UNCHANGED <<up, mutex>>

\* The err != nil branch without its "return": the job is failed, then the
\* call goes on to parse the output and to mark the job completed.
performFijiAnalysis_failed_noReturn(id) ==
  /\ pc[id] = "wait"
  /\ ProcFailed(proc[id])
  /\ id \in DOMAIN results
  /\ results' = [results EXCEPT ![id] =
       parseFijiResults(
         updateResultWithError(results[id],
           <<"Fiji execution failed: ", ProcErrText(proc[id])>>, Now),
         output[id], Now - startTime[id])]
  /\ analysisTime' = [analysisTime EXCEPT ![id] = Now - startTime[id]]
  /\ pc' = [pc EXCEPT ![id] = "complete"]
  /\ UNCHANGED <<issued, hpc, upload, ctx, saved, macro, proc, output,
                 startTime, retErr, rejected, clock, rd>>
  /\ UNCHANGED <<up, mutex>>

\* The call with err ignored: the output is parsed whatever the process did
performFijiAnalysis_failed_errIgnored(id) ==
  /\ pc[id] = "wait"
  /\ ProcFailed(proc[id])
  /\ id \in DOMAIN results
  /\ results' = [results EXCEPT ![id] =
       parseFijiResults(results[id], output[id], Now - startTime[id])]
  /\ analysisTime' = [analysisTime EXCEPT ![id] = Now - startTime[id]]
  /\ pc' = [pc EXCEPT ![id] = "complete"]
  /\ UNCHANGED <<issued, hpc, upload, ctx, saved, macro, proc, output,
                 startTime, retErr, rejected, clock, rd>>
  /\ UNCHANGED <<up, mutex>>

\* Lines 123-130, err != nil: the job is failed under the lock, the deferred
\* os.Remove deletes the macro and the error is returned (analysisTime is
\* not used on this path).
performFijiAnalysis_failed(id) ==
  /\ pc[id] = "wait"
  /\ ProcFailed(proc[id])
  /\ LET msg == <<"Fiji execution failed: ", ProcErrText(proc[id])>> IN
       /\ results' = FailInStore(id, msg)
       /\ retErr' = [retErr EXCEPT ![id] = msg]
  /\ macro' = [macro EXCEPT ![id] = "removed"]
  /\ pc' = [pc EXCEPT ![id] = "pfa_returned_err"]
  /\ UNCHANGED <<issued, hpc, upload, ctx, saved, proc, output, startTime,
                 analysisTime, rejected, clock, rd>>
  /\ UNCHANGED <<up, mutex>>

\* A parse step that fails the job when the output has no result block
performFijiAnalysis_parse_strict(id) ==
  /\ pc[id] = "wait"
  /\ proc[id] = "exit_zero"
  /\ analysisTime' = [analysisTime EXCEPT ![id] = Now - startTime[id]]
  /\ IF parseOutput(output[id]).inResults
       THEN /\ results' = [results EXCEPT ![id] =
                 parseFijiResults(results[id], output[id],
                                  Now - startTime[id])]
            /\ pc' = [pc EXCEPT ![id] = "complete"]
            /\ UNCHANGED <<macro, retErr>>
       ELSE /\ results' = FailInStore(id, <<"failed to parse results">>)
            /\ retErr' = [retErr EXCEPT
                            ![id] = <<"failed to parse results">>]
            /\ macro' = [macro EXCEPT ![id] = "removed"]
            /\ pc' = [pc EXCEPT ![id] = "pfa_returned_err"]
  /\ UNCHANGED <<issued, hpc, upload, ctx, saved, proc, output,
                 startTime, rejected, clock, rd>>
  /\ UNCHANGED <<up, mutex>>

\* Lines 123-135, err == nil: parseFijiResults updates the record under the
\* lock and returns nil.
performFijiAnalysis_parse(id) ==
  /\ pc[id] = "wait"
  /\ proc[id] = "exit_zero"
  /\ analysisTime' = [analysisTime EXCEPT ![id] = Now - startTime[id]]
  /\ results' = [results EXCEPT
       ![id] = parseFijiResults(results[id], output[id], Now - startTime[id])]
  /\ pc' = [pc EXCEPT ![id] = "complete"]
  /\ UNCHANGED <<issued, hpc, upload, ctx, saved, macro, proc, output,
                 startTime, retErr, rejected, clock, rd>>
  /\ UNCHANGED <<up, mutex>>

performFijiAnalysis_complete_evict(id) ==
  /\ pc[id] = "complete"
  /\ results' = [i \in DOMAIN results \ {id} |-> results[i]]
  /\ macro' = [macro EXCEPT ![id] = "removed"]
  /\ ctx' = [ctx EXCEPT ![id] = "cancelled"]
  /\ pc' = [pc EXCEPT ![id] = "done"]
  /\ UNCHANGED <<issued, hpc, upload, saved, proc, output, startTime,
                 analysisTime, retErr, rejected, clock, rd>>
  /\ UNCHANGED <<up, mutex>>

\* Lines 137-147 and 72: the record is marked completed under the lock, the
\* deferred os.Remove deletes the macro, both calls return nil.
performFijiAnalysis_complete(id) ==
  /\ pc[id] = "complete"
  /\ results' = [results EXCEPT
       ![id] = markCompleted(results[id], Now, analysisTime[id])]
  /\ macro' = [macro EXCEPT ![id] = "removed"]
  /\ ctx' = [ctx EXCEPT ![id] = "cancelled"]
  /\ pc' = [pc EXCEPT ![id] = "done"]
  /\ UNCHANGED <<issued, hpc, upload, saved, proc, output, startTime,
                 analysisTime, retErr, rejected, clock, rd>>
  /\ UNCHANGED <<up, mutex>>

(* ------------------------ the external process ------------------------- *)
\* The process ends by itself with status 0 and combined output out.
ProcessExitZero(id, out) ==
  /\ proc[id] = "running"
  /\ proc' = [proc EXCEPT ![id] = "exit_zero"]
  /\ output' = [output EXCEPT ![id] = out]
  /\ UNCHANGED <<results, issued, hpc, pc, upload, ctx, saved, macro,
                 startTime, analysisTime, retErr, rejected, clock, rd>>
  /\ UNCHANGED <<up, mutex>>

\* The process ends by itself with a non-zero status.
ProcessExitNonZero(id) ==
  /\ proc[id] = "running"
  /\ proc' = [proc EXCEPT ![id] = "exit_nonzero"]
  /\ output' = [output EXCEPT ![id] = OutStderr]
  /\ UNCHANGED <<results, issued, hpc, pc, upload, ctx, saved, macro,
                 startTime, analysisTime, retErr, rejected, clock, rd>>
  /\ UNCHANGED <<up, mutex>>

\* A timeout that marks the context done and leaves the process alone (a
\* command started with exec.Command instead of exec.CommandContext)
DeadlineExpires_noKill(id) ==
  /\ ctx[id] = "armed"
  /\ ctx' = [ctx EXCEPT ![id] = "expired"]
  /\ UNCHANGED <<results, issued, hpc, pc, upload, saved, macro, proc, output,
                 startTime, analysisTime, retErr, rejected, clock, rd>>
  /\ UNCHANGED <<up, mutex>>

\* The timeout of the context fires.  exec.CommandContext kills the process
\* if it has not completed on its own.
DeadlineExpires(id) ==
  /\ ctx[id] = "armed"
  /\ ctx' = [ctx EXCEPT ![id] = "expired"]
  /\ IF proc[id] = "running"
       THEN /\ proc' = [proc EXCEPT ![id] = "killed"]
            /\ output' = [output EXCEPT ![id] = OutStderr]
       ELSE UNCHANGED <<proc, output>>
  /\ UNCHANGED <<results, issued, hpc, pc, upload, saved, macro, startTime,
                 analysisTime, retErr, rejected, clock, rd>>
  /\ UNCHANGED <<up, mutex>>

(* ------------------ the status request (GetAnalysisStatus) ------------- *)
\* The identifiers a client may ask about: issued or not, and the empty one
NoSuchID == "ffffffff-0000-4000-8000-000000000000"
QueryIDs == IDs \cup {"", NoSuchID}

\* The fields of a record as the JSON encoder reads them, in three groups:
\* the status, the fields written with a terminal status, and the metrics.
FieldGroups == {"Status", "Completion", "Metrics"}
MetricFields == {"PurityPercentage", "Confidence", "GypsumContent",
                 "ImpurityContent", "CalciteContent", "QuartzContent",
                 "OtherMinerals", "ThresholdValue", "ParticleCount",
                 "AverageParticleSize"}
ReadGroup(r, g) ==
  CASE g = "Status" -> r.Status
    [] g = "Completion" -> [CompletedAt |-> r.CompletedAt, Error |-> r.Error]
    [] g = "Metrics" -> [f \in MetricFields |-> r[f]]

Unread == "unread"
NoSnap == [g \in FieldGroups |-> Unread]

\* A lookup that stores a fresh record under an id it does not find
GetAnalysisStatus_createOnMiss(qid) ==
  /\ rd.st # "encoding"
  /\ rd' = IF qid = ""
             THEN [st |-> "done", id |-> qid, code |-> 400,
                   todo |-> {}, snap |-> NoSnap]
           ELSE IF qid \notin DOMAIN results
             THEN [st |-> "done", id |-> qid, code |-> 404,
                   todo |-> {}, snap |-> NoSnap]
           ELSE [st |-> "encoding", id |-> qid, code |-> 200,
                 todo |-> FieldGroups, snap |-> NoSnap]
  /\ results' = IF qid # "" /\ qid \notin DOMAIN results
                  THEN (qid :> NewAnalysisResult(qid, Now, 0)) @@ results
                  ELSE results
  /\ UNCHANGED <<issued, hpc, upload, rejected, clock>>
  /\ UNCHANGED runnerVars
  /\ UNCHANGED <<up, mutex>>

\* The handler without the test of lines 71-76: the empty id goes to the
\* service like any other
GetAnalysisStatus_noEmptyCheck(qid) ==
  /\ rd.st # "encoding"
  /\ rd' = IF qid \notin DOMAIN results
             THEN [st |-> "done", id |-> qid, code |-> 404,
                   todo |-> {}, snap |-> NoSnap]
           ELSE [st |-> "encoding", id |-> qid, code |-> 200,
                 todo |-> FieldGroups, snap |-> NoSnap]
  /\ UNCHANGED <<results, issued, hpc, upload, rejected, clock>>
  /\ UNCHANGED runnerVars
  /\ UNCHANGED <<up, mutex>>

\* AnalysisHandler.GetAnalysisStatus up to the return of the service call:
\* 400 for an empty id, 404 when the service finds no record under the read
\* lock, otherwise the handler holds the pointer the service returned and
\* goes on to encode the record.
GetAnalysisStatus(qid) ==
  /\ rd.st # "encoding"
  /\ rd' = IF qid = ""
             THEN [st |-> "done", id |-> qid, code |-> 400,
                   todo |-> {}, snap |-> NoSnap]
           ELSE IF qid \notin DOMAIN results
             THEN [st |-> "done", id |-> qid, code |-> 404,
                   todo |-> {}, snap |-> NoSnap]
           ELSE [st |-> "encoding", id |-> qid, code |-> 200,
                 todo |-> FieldGroups, snap |-> NoSnap]
  /\ UNCHANGED <<results, issued, hpc, upload, rejected, clock>>
  /\ UNCHANGED runnerVars
  /\ UNCHANGED <<up, mutex>>

\* c.JSON(200, status), the answer only: the request is answered; what the
\* body holds is not followed (SpecRace follows it, read by read).
RespondStatus ==
  /\ rd.st = "encoding"
  /\ rd' = [rd EXCEPT !.st = "done", !.todo = {}]
  /\ UNCHANGED <<results, issued, hpc, upload, rejected, clock>>
  /\ UNCHANGED runnerVars
  /\ UNCHANGED <<up, mutex>>

\* c.JSON(200, status), read by read: the encoder reads one group of fields
\* of the record through the pointer, without the lock, the groups in any
\* order.  The request is answered when the last group has been read.
EncodeField(g) ==
  /\ rd.st = "encoding"
  /\ g \in rd.todo
  /\ rd' = [rd EXCEPT !.snap[g] = ReadGroup(results[rd.id], g),
                      !.todo = rd.todo \ {g},
                      !.st = IF rd.todo = {g} THEN "done" ELSE "encoding"]
  /\ UNCHANGED <<results, issued, hpc, upload, rejected, clock>>
  /\ UNCHANGED runnerVars
  /\ UNCHANGED <<up, mutex>>

(* ------------------------------- Init ---------------------------------- *)
IdleReader ==
  [st |-> "idle", id |-> "", code |-> 0, todo |-> {}, snap |-> NoSnap]

Init ==
  /\ results = << >>
  /\ issued = 0
  /\ hpc = [id \in IDs |-> "none"]
  /\ pc = [id \in IDs |-> "none"]
  /\ upload = [id \in IDs |-> NoFile]
  /\ ctx = [id \in IDs |-> "none"]
  /\ saved = [id \in IDs |-> "none"]
  /\ macro = [id \in IDs |-> "none"]
  /\ proc = [id \in IDs |-> "none"]
  /\ output = [id \in IDs |-> << >>]
  /\ startTime = [id \in IDs |-> 0]
  /\ analysisTime = [id \in IDs |-> 0]
  /\ retErr = [id \in IDs |-> Nil]
  /\ rejected = ""
  /\ clock = 0
  /\ rd = IdleReader
  /\ up = TRUE
  /\ mutex = FreeMutex

(* ------------------------------- Next ---------------------------------- *)
\* Everything but the encoding of a status answer
System ==
  \/ Tick
  \/ \E f \in Uploads : AnalyzeGypsumReject(f)
  \/ \E f \in Uploads : AnalyzeGypsumSpawn(f)
  \/ \E id \in IDs : AnalyzeGypsumRespond(id)
  \/ \E id \in IDs : AnalyzeGypsumImage_insert(id)
  \/ \E id \in IDs, e \in SaveOutcomes : AnalyzeGypsumImage_saveFailed(id, e)
  \/ \E id \in IDs : AnalyzeGypsumImage_saved(id)
  \/ \E id \in IDs : AnalyzeGypsumImage_failed(id)
  \/ \E id \in IDs : performFijiAnalysis_macro(id)
  \/ \E id \in IDs, e \in MacroOutcomes : performFijiAnalysis_macroFailed(id, e)
  \/ \E id \in IDs, ok \in BOOLEAN : performFijiAnalysis_start(id, ok)
  \/ \E id \in IDs : performFijiAnalysis_failed(id)
  \/ \E id \in IDs : performFijiAnalysis_parse(id)
  \/ \E id \in IDs : performFijiAnalysis_complete(id)
  \/ \E id \in IDs, out \in SuccessOutputs : ProcessExitZero(id, out)
  \/ \E id \in IDs : ProcessExitNonZero(id)
  \/ \E id \in IDs : DeadlineExpires(id)
  \/ \E qid \in QueryIDs : GetAnalysisStatus(qid)

Next == System \/ RespondStatus

Spec == Init /\ [][Next]_vars

\* The same system with the encoder of the status answer followed read by
\* read
NextRace == System \/ \E g \in FieldGroups : EncodeField(g)

SpecRace == Init /\ [][NextRace]_vars

(* ------------------- the analysis of one finished process -------------- *)
\* The second half of a run on its own, over more artifacts and outputs than
\* Spec draws: a job whose process has just exited with status 0, in the
\* state Spec reaches by AnalyzeGypsumSpawn, AnalyzeGypsumRespond,
\* AnalyzeGypsumImage_insert, AnalyzeGypsumImage_saved,
\* performFijiAnalysis_macro, performFijiAnalysis_start and ProcessExitZero.
AnalysisSizes == {0, 40000, 49999, 75000, 120000, 220000}
AnalysisExts == {".jpg", ".PNG"}

\* A block with more than 50 particles that cover half of the image
OutDense ==
  RESULTS_START \o <<NL>>
    \o KV("particle_count", <<"6", "0">>)
    \o KV("total_area", <<"7", "5", "0", "0", "0">>)
    \o KV("image_area", <<"1", "5", "0", "0", "0", "0">>)
    \o RESULTS_END \o <<NL>>
\* A block whose values are zero or negative
OutNonPositive ==
  RESULTS_START \o <<NL>>
    \o KV("purity_percentage", <<"-", "5">>)
    \o KV("particle_count", <<"-", "3">>)
    \o KV("threshold_value", <<"0", ".", "0">>)
    \o RESULTS_END \o <<NL>>
\* A block with two values that do not parse: a purity that is no number and
\* a particle count that is no integer
OutMalformed ==
  RESULTS_START \o <<NL>>
    \o KV("purity_percentage", <<"8", "x", ".", "5">>)
    \o KV("particle_count", <<"4", ".", "5">>)
    \o KV("total_area", <<"1", "2", "5", "0", "0", "0">>)
    \o KV("image_area", <<"1", "5", "0", "0", "0", "0">>)
    \o KV("threshold_value", <<"1", "2", "8", ".", "5">>)
    \o RESULTS_END \o <<NL>>
\* A block whose gypsum and impurity contents are present but not positive
OutNoMinerals ==
  RESULTS_START \o <<NL>>
    \o KV("purity_percentage", <<"8", "5", ".", "5">>)
    \o KV("gypsum_content", <<"0">>)
    \o KV("impurity_content", <<"-", "1">>)
    \o RESULTS_END \o <<NL>>
\* A block that is opened and never closed
OutUnclosed ==
  <<"x", NL>> \o RESULTS_START \o <<NL>>
    \o KV("purity_percentage", <<"9", "0", ".", "2", "5">>)
    \o KV("particle_count", <<"1", "2">>)
    \o <<"x", SP, "x", NL>>
    \o KV("threshold_value", <<"1", "4", "0">>)
AnalysisOutputs ==
  SuccessOutputs \cup {OutDense, OutNonPositive, OutMalformed, OutNoMinerals,
                       OutUnclosed}

InitAnalysis ==
  \E size \in AnalysisSizes, ext \in AnalysisExts, out \in AnalysisOutputs :
    LET job == uuidNew(1)
        Of(mine, other) == [id \in IDs |-> IF id = job THEN mine ELSE other]
    IN /\ results = (job :> [NewAnalysisResult(job, 0, size) EXCEPT
                               !.ImagePath = ImagePathOf(job, ext)])
       /\ issued = 1
       /\ hpc = Of("returned", "none")
       /\ pc = Of("wait", "none")
       /\ upload = Of([present |-> TRUE, ext |-> ext, size |-> size], NoFile)
       /\ ctx = Of("armed", "none")
       /\ saved = Of("ok", "none")
       /\ macro = Of("written", "none")
       /\ proc = Of("exit_zero", "none")
       /\ output = Of(out, << >>)
       /\ startTime = Of(0, 0)
       /\ analysisTime = Of(0, 0)
       /\ retErr = Of(Nil, Nil)
       /\ rejected = ""
       /\ clock = 0
       /\ rd = IdleReader
       /\ up = TRUE
       /\ mutex = FreeMutex

NextAnalysis ==
  \/ Tick
  \/ \E id \in IDs : performFijiAnalysis_parse(id)
  \/ \E id \in IDs : performFijiAnalysis_complete(id)

SpecAnalysis == InitAnalysis /\ [][NextAnalysis]_vars

(* --------------------------- two submissions --------------------------- *)
\* The first half of a run on its own, for more than one job: submissions
\* are accepted, answered, inserted and their artifacts persisted, each job
\* by its own goroutine, in any interleaving.
SubmitIDs == {UUIDs[n] : n \in 1..MaxSubmissions}

AnalyzeGypsumResubmit(f) == AnalyzeGypsumSpawnUnder(f, MaxSubmissions)

InitSubmit ==
  /\ results = << >>
  /\ issued = 0
  /\ hpc = [id \in SubmitIDs |-> "none"]
  /\ pc = [id \in SubmitIDs |-> "none"]
  /\ upload = [id \in SubmitIDs |-> NoFile]
  /\ ctx = [id \in SubmitIDs |-> "none"]
  /\ saved = [id \in SubmitIDs |-> "none"]
  /\ macro = [id \in SubmitIDs |-> "none"]
  /\ proc = [id \in SubmitIDs |-> "none"]
  /\ output = [id \in SubmitIDs |-> << >>]
  /\ startTime = [id \in SubmitIDs |-> 0]
  /\ analysisTime = [id \in SubmitIDs |-> 0]
  /\ retErr = [id \in SubmitIDs |-> Nil]
  /\ rejected = ""
  /\ clock = 0
  /\ rd = IdleReader
  /\ up = TRUE
  /\ mutex = FreeMutex

NextSubmit ==
  \/ \E f \in Uploads : AnalyzeGypsumResubmit(f)
  \/ \E id \in SubmitIDs : AnalyzeGypsumRespond(id)
  \/ \E id \in SubmitIDs : AnalyzeGypsumImage_insert(id)
  \/ \E id \in SubmitIDs, e \in SaveOutcomes :
       AnalyzeGypsumImage_saveFailed(id, e)
  \/ \E id \in SubmitIDs : AnalyzeGypsumImage_saved(id)

SpecSubmit == InitSubmit /\ [][NextSubmit]_vars

(* ------------------------------ shutdown ------------------------------- *)
\* main after <-quit: server.Shutdown waits for the HTTP requests in
\* flight, then main returns and the service process exits.  Its goroutines
\* and its timers end with it.  Nothing in main or in the service cancels
\* the context of a job (it derives from context.Background()) or signals
\* the external process, which is a process of its own: it goes on.
Shutdown ==
  /\ up
  /\ up' = FALSE
  /\ pc' = [id \in DOMAIN pc |->
              IF pc[id] \in {"none", "done"} THEN pc[id] ELSE "gone"]
  /\ ctx' = [id \in DOMAIN ctx |->
               IF ctx[id] = "armed" THEN "gone" ELSE ctx[id]]
  /\ UNCHANGED <<results, issued, hpc, upload, saved, macro, proc, output,
                 startTime, analysisTime, retErr, rejected, clock, rd>>
  /\ UNCHANGED mutex

\* The steps of the goroutine that runs job id.  The Go scheduler runs a
\* runnable goroutine eventually, and none of these steps blocks: each is
\* weakly fair.
Runner(id) ==
  \/ AnalyzeGypsumImage_insert(id)
  \/ \E e \in SaveOutcomes : AnalyzeGypsumImage_saveFailed(id, e)
  \/ AnalyzeGypsumImage_saved(id)
  \/ AnalyzeGypsumImage_failed(id)
  \/ performFijiAnalysis_macro(id)
  \/ \E e \in MacroOutcomes : performFijiAnalysis_macroFailed(id, e)
  \/ \E ok \in BOOLEAN : performFijiAnalysis_start(id, ok)
  \/ performFijiAnalysis_failed(id)
  \/ performFijiAnalysis_parse(id)
  \/ performFijiAnalysis_complete(id)

(* ======================= properties of the job record ================== *)
StatusOf(id) == results[id].Status
HasStatus(id, st) == id \in DOMAIN results /\ results[id].Status = st

\* C1: the status of a job only ever changes from Processing to Completed
\* or from Processing to Failed: a terminal status is never replaced by a
\* different status, no job returns to Processing, and no record vanishes.
C1_StatusOneWay ==
  [][\A id \in DOMAIN results :
       /\ id \in DOMAIN results'
       /\ results'[id].Status # results[id].Status
            => /\ results[id].Status = StatusProcessing
               /\ IsTerminal(results'[id].Status)]_vars

\* A failed job whose runner has made both of its failure updates, with a
\* status request answered for it
C1_Witness ==
  \E id \in DOMAIN results :
    /\ StatusOf(id) = StatusFailed
    /\ pc[id] = "done"
    /\ ProcFailed(proc[id])
    /\ rd.st = "done" /\ rd.id = id /\ rd.code = 200

\* C2 (as claimed): once the submit handler has answered with a job id, no
\* status request for that id is answered NotFound.
C2_NoNotFoundAfterSubmit ==
  [][\A id \in IDs :
       (hpc[id] = "returned" /\ rd' # rd /\ rd'.id = id /\ rd'.st = "done")
         => rd'.code # 404]_vars

\* C3 (as claimed): the record a status reader obtains is never partially
\* written; in particular it never shows metrics with the status still
\* Processing, and never shows a terminal status without completedAt.
ZeroMetrics == [f \in MetricFields |-> IF f = "Confidence" THEN FZero ELSE 0]
C3_NoTornRead ==
  (rd.st = "done" /\ rd.code = 200) =>
    /\ ~(rd.snap["Status"] = StatusProcessing
           /\ rd.snap["Metrics"] # ZeroMetrics)
    /\ ~(IsTerminal(rd.snap["Status"])
           /\ rd.snap["Completion"].CompletedAt = Nil)

\* C4 (as claimed): once the status of a job is Completed or Failed, no
\* field of its record is written again.
C4_TerminalRecordFrozen ==
  [][\A id \in DOMAIN results :
       IsTerminal(results[id].Status) => results'[id] = results[id]]_vars

\* C5: in every state of the store, completedAt is set if and only if the
\* status is Completed or Failed.
C5_CompletedAtIffTerminal ==
  \A id \in DOMAIN results :
    (results[id].CompletedAt # Nil) <=> IsTerminal(results[id].Status)

\* A completed job, which carries its completion time
C5_Witness ==
  \E id \in DOMAIN results :
    StatusOf(id) = StatusCompleted /\ results[id].CompletedAt # Nil

\* C6 (as claimed): the terminal transition is performed at most once, so
\* completedAt is never overwritten after it is first set.
C6_CompletedAtSetOnce ==
  [][\A id \in DOMAIN results :
       results[id].CompletedAt # Nil
         => results'[id].CompletedAt = results[id].CompletedAt]_vars

\* C7: the error string of a job is non-empty if and only if its status is
\* Failed.
C7_ErrorIffFailed ==
  \A id \in DOMAIN results :
    (results[id].Error # EmptyString) <=> (StatusOf(id) = StatusFailed)

\* A failed job, which carries its error message
C7_Witness ==
  \E id \in DOMAIN results :
    StatusOf(id) = StatusFailed /\ results[id].Error # EmptyString

\* C8: a step in which the deadline expires while the process is running
\* kills the process.  While the process runs the job is Processing; once
\* it is killed the job is never Completed, the runner always has a step to
\* take until it has returned, and when it has returned the job is Failed.
C8_DeadlineFails ==
  /\ [][\A id \in IDs :
         (ctx[id] = "armed" /\ ctx'[id] = "expired" /\ proc[id] = "running")
           => proc'[id] = "killed"]_vars
  /\ [](\A id \in IDs :
         /\ proc[id] = "running" => HasStatus(id, StatusProcessing)
         /\ proc[id] = "killed" =>
              /\ ctx[id] # "armed"
              /\ id \in DOMAIN results
              /\ ~HasStatus(id, StatusCompleted)
              /\ pc[id] = "done" => HasStatus(id, StatusFailed)
              /\ pc[id] # "done" => ENABLED Runner(id))

\* A job that failed because the deadline killed its process
C8_Witness ==
  \E id \in IDs :
    proc[id] = "killed" /\ pc[id] = "done" /\ StatusOf(id) = StatusFailed

\* C9 (as claimed): a job is Failed only if persisting the artifact failed
\* or the invocation of the external process failed.
C9_FailedOnlyBySaveOrProcess ==
  \A id \in DOMAIN results :
    StatusOf(id) = StatusFailed
      => saved[id] = "failed" \/ ProcFailed(proc[id])

\* C9 (amended): a job is Failed only if persisting the artifact failed,
\* writing the instruction script failed, or the invocation of the external
\* process failed; parsing the output never fails a job.
C9_FailedOnlyBySaveMacroOrProcess ==
  \A id \in DOMAIN results :
    StatusOf(id) = StatusFailed
      => saved[id] = "failed" \/ macro[id] = "failed" \/ ProcFailed(proc[id])

\* A job failed by the script that could not be written
C9_Witness ==
  \E id \in DOMAIN results :
    /\ StatusOf(id) = StatusFailed
    /\ macro[id] = "failed"
    /\ saved[id] = "ok" /\ proc[id] = "none"

\* Does the text hold a line that is the start sentinel?
HasStartLine(out) ==
  \E line \in {Split(out, NL)[i] : i \in 1..Len(Split(out, NL))} :
    TrimSpace(line) = RESULTS_START

\* Every metric of r is the value the fallback rule gives
AllFallback(r) ==
  /\ r.PurityPercentage = estimatePurityFromImage(r.ImageSize, r.ImagePath)
  /\ r.GypsumContent = r.PurityPercentage
  /\ r.ImpurityContent = 100 * Milli - r.PurityPercentage
  /\ r.ParticleCount = estimateParticleCount(r.ImageSize)
  /\ r.ThresholdValue = estimateThreshold(r.ImageSize)

\* C10: when the process exits with status 0 the job is never Failed,
\* whatever the output; the runner always has a step to take until it has
\* returned, and when it has returned the job is Completed.  An output
\* without a start sentinel line parses to nothing, and every metric of
\* the job is then the fallback value.
C10_SuccessAlwaysCompletes ==
  \A id \in IDs :
    proc[id] = "exit_zero" =>
      /\ id \in DOMAIN results
      /\ ~HasStatus(id, StatusFailed)
      /\ pc[id] = "done" => HasStatus(id, StatusCompleted)
      /\ pc[id] # "done" => ENABLED Runner(id)
      /\ (pc[id] \in {"complete", "done"} /\ ~HasStartLine(output[id]))
           => /\ parseOutput(output[id]) = ParseStart
              /\ AllFallback(results[id])

\* A job completed from a non-empty output that has no start sentinel line
C10_Witness ==
  \E id \in DOMAIN results :
    /\ proc[id] = "exit_zero"
    /\ pc[id] = "done"
    /\ StatusOf(id) = StatusCompleted
    /\ output[id] # << >>
    /\ ~HasStartLine(output[id])

(* ========================= failure and cleanup ========================= *)
\* C11: if persisting the uploaded artifact fails, the job is Failed with an
\* error string that carries the I/O error, the runner has returned, no
\* instruction script has been written and no process has been started.
C11_SaveFailureStopsJob ==
  \A id \in IDs :
    saved[id] = "failed" =>
      /\ HasStatus(id, StatusFailed)
      /\ \E e \in SaveOutcomes \ {"ok"} :
           results[id].Error = <<"Failed to save uploaded file: ", e>>
      /\ pc[id] = "done"
      /\ macro[id] = "none"
      /\ proc[id] = "none"

\* A job failed by the artifact that could not be created
C11_Witness ==
  \E id \in DOMAIN results :
    /\ saved[id] = "failed"
    /\ StatusOf(id) = StatusFailed
    /\ results[id].Error[2] = "failed to create destination file: "

\* needle occurs in hay as a run of consecutive elements
ContainsSeq(hay, needle) ==
  \E i \in 1..(Len(hay) - Len(needle) + 1) :
    SubSeq(hay, i, i + Len(needle) - 1) = needle

C13_ScriptRemoved ==
  \A id \in IDs :
    /\ pc[id] = "done" => macro[id] \in {"none", "failed", "removed"}
    /\ (pc[id] = "done" /\ proc[id] # "none") => macro[id] = "removed"
    /\ pc[id] = "pfa_returned_err" => macro[id] \in {"failed", "removed"}

\* A finished job whose process was killed and whose script is gone
C13_Witness ==
  \E id \in IDs :
    pc[id] = "done" /\ proc[id] = "killed" /\ macro[id] = "removed"

(* ============================== the metrics ============================ *)
\* The metrics the analysis writes (AverageParticleSize is written by
\* nothing)
WrittenMetrics == MetricFields \ {"AverageParticleSize"}

\* C14: a Completed job carries every metric the analysis writes: purity,
\* gypsum, particle count, threshold and confidence are positive, impurity
\* is the parsed value or the complement of purity, and the three mineral
\* contents are the shares 0.3, 0.2 and 0.5 of impurity.  A Failed job
\* carries none: every metric still has the zero value of the new record.
C14_MetricsIffCompleted ==
  \A id \in DOMAIN results :
    LET r == results[id] IN
      /\ r.Status = StatusCompleted =>
           /\ r.PurityPercentage > 0
           /\ r.GypsumContent > 0
           /\ r.ParticleCount > 0
           /\ r.ThresholdValue > 0
           /\ FGreater(r.Confidence, FZero)
           /\ \/ r.ImpurityContent = 100 * Milli - r.PurityPercentage
              \/ /\ r.ImpurityContent > 0
                 /\ Parsed(parseOutput(output[id]).results,
                           <<"impurity_content">>)
           /\ r.CalciteContent = (r.ImpurityContent * 3) \div 10
           /\ r.QuartzContent = (r.ImpurityContent * 2) \div 10
           /\ r.OtherMinerals = (r.ImpurityContent * 5) \div 10
      /\ r.Status = StatusFailed =>
           \A f \in WrittenMetrics : r[f] = ZeroMetrics[f]

\* A Completed job with mineral contents, from the block of a blank image
C14_Witness ==
  \E id \in DOMAIN results :
    /\ StatusOf(id) = StatusCompleted
    /\ output[id] = OutZeroBlock
    /\ results[id].ImpurityContent = 100 * Milli
    /\ results[id].CalciteContent = 30 * Milli
    /\ results[id].OtherMinerals = 50 * Milli

(* ============================ the confidence =========================== *)
\* The locals the scanning loop leaves for the output of job id
ParsedOf(id) == parseOutput(output[id])

\* The job has been through the locked section of parseFijiResults
Analysed(id) == pc[id] \in {"complete", "done"} /\ proc[id] = "exit_zero"

\* 10 * (0.5 + 0.2*[count > 10] + 0.2*[count > 50]
\*         + 0.1*[0.1 < total_area/image_area < 0.9]), in exact arithmetic
ConfidenceTenths(res, count) ==
  LET total == MapGet(res, <<"total_area">>)
      image == MapGet(res, <<"image_area">>)
  IN 5 + (IF count > 10 THEN 2 ELSE 0) + (IF count > 50 THEN 2 ELSE 0)
       + (IF total > 0 /\ image > 0
             /\ 10 * total > image /\ 10 * total < 9 * image
            THEN 1 ELSE 0)

\* The float64 that is k/10 (the nearest float64, for k from 5 to 10)
TenthAsFloat(k) ==
  CASE k = 5 -> F0_5
    [] k = 6 -> <<161061273, 161061272>>
    [] k = 7 -> <<187904819, 53687088>>
    [] k = 8 -> <<214748364, 214748368>>
    [] k = 9 -> <<241591910, 107374184>>
    [] k >= 10 -> F1_0

\* C15 (as claimed): the confidence of an analysed job is
\* min(1, 0.5 + 0.2*[count > 10] + 0.2*[count > 50] + 0.1*[coverage in
\* (0.1, 0.9)]) for the parsed count and areas, and lies in [0, 1]; count 60
\* with coverage 0.5 gives exactly 1.0.
C15_ConfidenceIsFormula ==
  \A id \in IDs :
    Analysed(id) =>
      /\ results[id].Confidence =
           TenthAsFloat(ConfidenceTenths(ParsedOf(id).results,
                                         ParsedOf(id).particleCount))
      /\ ~FGreater(results[id].Confidence, F1_0)
      /\ ~FGreater(FZero, results[id].Confidence)

\* The run of the end-to-end scenario: an artifact of 120000 bytes whose
\* process exited with status 0 and printed the well-formed block
\* purity_percentage:85.5, particle_count:45, total_area:125000,
\* image_area:150000, threshold_value:128.5
Scenario120000(id) ==
  /\ upload[id].size = 120000
  /\ proc[id] = "exit_zero"
  /\ output[id] = OutWellFormed

C17_GapFilling ==
  \A id \in IDs :
    Analysed(id) =>
      LET r == results[id]
          res == ParsedOf(id).results
          count == ParsedOf(id).particleCount
          Kept(key) == key \in DOMAIN res /\ res[key] > 0
      IN /\ r.PurityPercentage =
              IF Kept(<<"purity_percentage">>)
                THEN res[<<"purity_percentage">>]
                ELSE estimatePurityFromImage(r.ImageSize, r.ImagePath)
         /\ r.ParticleCount =
              IF count > 0 THEN count ELSE estimateParticleCount(r.ImageSize)
         /\ r.ThresholdValue =
              IF Kept(<<"threshold_value">>)
                THEN res[<<"threshold_value">>]
                ELSE estimateThreshold(r.ImageSize)
         /\ r.PurityPercentage > 0 /\ r.ParticleCount > 0
         /\ r.ThresholdValue > 0

\* A finished job whose output gave a negative purity, a negative count and
\* a zero threshold, all three replaced by the estimates for 40000 bytes
C17_Witness ==
  \E id \in DOMAIN results :
    /\ Analysed(id) /\ pc[id] = "done"
    /\ output[id] = OutNonPositive
    /\ ParsedOf(id).results[<<"purity_percentage">>] = 0 - 5 * Milli
    /\ ParsedOf(id).particleCount = 0 - 3
    /\ results[id].ImageSize = 40000
    /\ results[id].ParticleCount = 10
    /\ results[id].ThresholdValue = 120 * Milli

(* ========================= the fallback estimator ====================== *)
InRange(x, lo, hi) == lo <= x /\ x <= hi

\* C18: for the size and the path of every job, the fallback purity lies in
\* [30, 95], the fallback particle count in [5, 100] and the fallback
\* threshold in [80, 200], also when the rolling hash of the path has
\* wrapped around to a negative value; a job analysed from an output
\* without a start sentinel line carries a purity in [30, 95] and a
\* particle count in [5, 100].
C18_FallbackRanges ==
  \A id \in DOMAIN results :
    LET r == results[id] IN
      /\ InRange(estimatePurityFromImage(r.ImageSize, r.ImagePath),
                 30 * Milli, 95 * Milli)
      /\ InRange(estimateParticleCount(r.ImageSize), 5, 100)
      /\ InRange(estimateThreshold(r.ImageSize), 80 * Milli, 200 * Milli)
      /\ (Analysed(id) /\ ~HasStartLine(output[id])) =>
           /\ InRange(r.PurityPercentage, 30 * Milli, 95 * Milli)
           /\ InRange(r.ParticleCount, 5, 100)

\* A finished job of 49999 bytes with an empty output: the hash of its key
\* is negative (hash % 35 is -34), the purity is raised to 30 by the clamp
C18_Witness ==
  \E id \in DOMAIN results :
    /\ Analysed(id) /\ pc[id] = "done"
    /\ output[id] = OutEmpty
    /\ results[id].ImageSize = 49999
    /\ WordNegative(hashString(HashKey(49999, results[id].ImagePath)))
    /\ Mod35(hashString(HashKey(49999, results[id].ImagePath))) = 0 - 34
    /\ results[id].PurityPercentage = 30 * Milli
    /\ results[id].ParticleCount = 14

(* ===================== lines the scan should ignore ==================== *)
\* Lines added outside the sentinel span: free text, a line with a
\* recognized key, and the end sentinel
OutsideLines ==
  {<<"x", SP, "x">>,
   <<"purity_percentage", COLON, "5", "0">>,
   RESULTS_END}

\* Lines added inside the span, with a key the update does not read
UnknownKeyLines == {<<"x", COLON, "1">>, <<"mean_gray", COLON, "1", "2">>}

\* out with a line added before its first line, and after its last line
AddedBefore(out, line) == line \o <<NL>> \o out
AddedAfter(out, line) == out \o line \o <<NL>>

\* out, which opens with the start sentinel line, with a line added right
\* after that line
AddedInside(out, line) ==
  RESULTS_START \o <<NL>> \o line \o <<NL>>
    \o SubSeq(out, Len(RESULTS_START) + 2, Len(out))

OpensWithStart(out) ==
  /\ Len(out) > Len(RESULTS_START)
  /\ SubSeq(out, 1, Len(RESULTS_START) + 1) = RESULTS_START \o <<NL>>

\* The metrics parseFijiResults writes on the record of id from out
MetricsFrom(id, out) ==
  [f \in WrittenMetrics |->
     parseFijiResults(results[id], out, results[id].AnalysisTime)[f]]

\* C20: the metrics of an analysed job are the metrics the same record gets
\* from its output with one more line before the sentinel span, with one
\* more line after it, or with one more line of unrecognized key inside it.
C20_OutsideLinesIgnored ==
  \A id \in DOMAIN results :
    Analysed(id) =>
      LET written == [f \in WrittenMetrics |-> results[id][f]] IN
        /\ \A line \in OutsideLines :
             /\ MetricsFrom(id, AddedBefore(output[id], line)) = written
             /\ MetricsFrom(id, AddedAfter(output[id], line)) = written
        /\ OpensWithStart(output[id]) =>
             \A line \in UnknownKeyLines :
               MetricsFrom(id, AddedInside(output[id], line)) = written

(* ===================== values that do not parse ======================== *)
\* Lines of recognized key whose value is not of the expected kind
MalformedLines ==
  {<<"purity_percentage", COLON, "8", "x">>,
   <<"particle_count", COLON, "4", ".", "5">>,
   <<"particle_count", COLON, "x">>,
   <<"threshold_value", COLON>>,
   <<"impurity_content", COLON, "1", ".", "2", ".", "3">>}

\* out ends with the end sentinel line
ClosesWithEnd(out) ==
  /\ Len(out) > Len(RESULTS_END)
  /\ SubSeq(out, Len(out) - Len(RESULTS_END), Len(out))
       = RESULTS_END \o <<NL>>

\* out, which ends with the end sentinel line, with a line added right
\* before that line
AddedLast(out, line) ==
  SubSeq(out, 1, Len(out) - Len(RESULTS_END) - 1)
    \o line \o <<NL>> \o RESULTS_END \o <<NL>>

\* C21: a line of recognized key whose value does not parse is as if it
\* were absent.  The metrics of an analysed job are the metrics its record
\* gets from the output with such a line added at the start or at the end
\* of the block; a job whose block has an unparsable purity and an
\* unparsable particle count gets the fallback purity and count, keeps the
\* parsed threshold and the confidence of the parsed areas, and ends
\* Completed.
C21_MalformedValueDropped ==
  \A id \in DOMAIN results :
    Analysed(id) =>
      LET r == results[id]
          written == [f \in WrittenMetrics |-> results[id][f]]
      IN /\ OpensWithStart(output[id]) =>
              \A line \in MalformedLines :
                MetricsFrom(id, AddedInside(output[id], line)) = written
         /\ (HasStartLine(output[id]) /\ ClosesWithEnd(output[id])) =>
              \A line \in MalformedLines :
                MetricsFrom(id, AddedLast(output[id], line)) = written
         /\ output[id] = OutMalformed =>
              /\ r.PurityPercentage
                   = estimatePurityFromImage(r.ImageSize, r.ImagePath)
              /\ r.ParticleCount = estimateParticleCount(r.ImageSize)
              /\ r.ThresholdValue = 128500
              /\ r.Confidence = TenthAsFloat(6)
              /\ r.Status # StatusFailed
              /\ pc[id] = "done" => r.Status = StatusCompleted

\* A Completed job of 75000 bytes whose block had the two unparsable values
C21_Witness ==
  \E id \in DOMAIN results :
    /\ pc[id] = "done"
    /\ output[id] = OutMalformed
    /\ ~Atoi(<<"4", ".", "5">>).ok
    /\ ~ParseFloat(<<"8", "x", ".", "5">>).ok
    /\ results[id].Status = StatusCompleted
    /\ results[id].ImageSize = 75000
    /\ results[id].ParticleCount = 37
    /\ results[id].ThresholdValue = 128500

(* ========================= the two handlers ============================ *)
\* The submission f passes the two tests of AnalyzeGypsum
Accepted(f) == f.present /\ ValidExt(ToLower(f.ext))

\* C22: a submission without an "image" file, or with a file whose
\* lower-cased extension is not an accepted one, is answered with a 400
\* error and nothing else happens: the step that answers it issues no
\* identifier, starts no call of the analysis service and leaves the store
\* alone; every identifier issued, every call of the service and every
\* record belongs to a submission with a file of accepted extension.
C22_RejectedLeavesNoTrace ==
  /\ [][rejected' # rejected =>
          /\ rejected' \in {"No image file provided", "Unsupported file type"}
          /\ UNCHANGED <<results, issued, hpc, pc, upload>>]_vars
  /\ [](\A id \in IDs :
          (hpc[id] # "none" \/ pc[id] # "none" \/ id \in DOMAIN results)
            => Accepted(upload[id]))

\* A file of extension .txt has been answered 400 and the only job there is
\* comes from an accepted file
C22_Witness ==
  /\ rejected = "Unsupported file type"
  /\ issued = 1
  /\ DOMAIN results = {uuidNew(1)}
  /\ Accepted(upload[uuidNew(1)])

\* No submission was ever accepted under the id
NeverSubmitted(id) == id # "" /\ (id \notin IDs \/ pc[id] = "none")

\* C23: a status request for an id that was never submitted is answered
\* 404, and a step of a status request (the lookup or the answer) leaves
\* the store as it is: no record is created, removed or modified.
C23_UnknownIdNotFound ==
  /\ [][rd' # rd =>
          /\ results' = results
          /\ NeverSubmitted(rd'.id) => rd'.st = "done" /\ rd'.code = 404]_vars
  /\ [](rd.id = NoSuchID => rd.st = "done" /\ rd.code = 404)

\* The unknown id has been answered 404 while the store holds a job
C23_Witness ==
  /\ rd.st = "done" /\ rd.id = NoSuchID /\ rd.code = 404
  /\ DOMAIN results = {uuidNew(1)}

\* C24: a status request with an empty id is answered 400 at once: the
\* step that takes it ends the request with code 400, with no record to
\* encode and no field read from the store, and leaves the store alone,
\* whatever the store holds.
C24_EmptyIdRejected ==
  /\ [][(rd' # rd /\ rd'.id = "") =>
          /\ rd'.st = "done" /\ rd'.code = 400
          /\ rd'.todo = {} /\ rd'.snap = NoSnap
          /\ results' = results]_vars
  /\ [](rd.id = "" => rd = IdleReader \/ rd.code = 400)

\* The empty id has been answered 400 while the store holds a job
C24_Witness ==
  /\ rd.st = "done" /\ rd.id = "" /\ rd.code = 400
  /\ DOMAIN results = {uuidNew(1)}

\* C25: every submission that was given an identifier, a record or an
\* external process declared a size within the configured maximum.
C25_SizeLimitEnforced ==
  \A id \in IDs :
    (hpc[id] # "none" \/ id \in DOMAIN results \/ proc[id] # "none")
      => upload[id].size <= MaxFileSize

(* ============================ several jobs ============================= *)
\* C26: every accepted submission has an identifier of its own (as many
\* identifiers are in use as submissions were accepted, also when the
\* submissions carry the same file), the record stored under an identifier
\* is the record of that identifier, a record enters the store only by the
\* insertion of a job that has none yet, and a record changes only by a
\* step of its own job: the insertion of another job leaves it as it is.
\* uuid.New is taken to return an identifier it has not returned before.
C26_OneRecordPerId ==
  /\ [](issued = Cardinality({id \in SubmitIDs : hpc[id] # "none"}))
  /\ [](\A id \in DOMAIN results : results[id].ID = id)
  /\ [][\A id \in SubmitIDs :
          /\ (pc[id] = "insert" /\ pc'[id] # "insert") =>
               /\ id \notin DOMAIN results
               /\ DOMAIN results' = DOMAIN results \cup {id}
          /\ id \in DOMAIN results =>
               /\ id \in DOMAIN results'
               /\ pc'[id] = pc[id] => results'[id] = results[id]]_vars

\* Two jobs submitted with the same file: the first has failed, the second
\* has just been inserted
C26_Witness ==
  /\ DOMAIN results = {uuidNew(1), uuidNew(2)}
  /\ upload[uuidNew(1)] = upload[uuidNew(2)]
  /\ results[uuidNew(1)].Status = StatusFailed
  /\ results[uuidNew(2)].Status = StatusProcessing
  /\ pc[uuidNew(2)] = "save"

(* ============================== progress =============================== *)
\* One job from its submission to its end, with the external process and
\* the timeout, under the scheduling the program can rely on: a goroutine
\* that can take a step takes it eventually (none of the steps of Runner
\* blocks), and the timer of context.WithTimeout fires unless the context
\* is cancelled first.  Nothing is assumed of the external process: it may
\* run forever.  The clock stands still: the timestamps play no part here.
NextLive ==
  \/ \E f \in Uploads : AnalyzeGypsumSpawn(f)
  \/ \E id \in IDs : AnalyzeGypsumRespond(id)
  \/ \E id \in IDs : Runner(id)
  \/ \E id \in IDs, out \in SuccessOutputs : ProcessExitZero(id, out)
  \/ \E id \in IDs : ProcessExitNonZero(id)
  \/ \E id \in IDs : DeadlineExpires(id)
  \/ \E qid \in QueryIDs : GetAnalysisStatus(qid)
  \/ RespondStatus

FairLive ==
  /\ Init /\ [][NextLive]_vars
  /\ \A id \in IDs : WF_vars(Runner(id))
  /\ \A id \in IDs : WF_vars(DeadlineExpires(id))

NextShutdown ==
  \/ /\ up
     /\ \/ \E f \in Uploads : AnalyzeGypsumSpawn(f)
        \/ \E id \in IDs : AnalyzeGypsumRespond(id)
        \/ \E id \in IDs : Runner(id)
        \/ \E id \in IDs : DeadlineExpires(id)
        \/ Shutdown
  \/ \E id \in IDs, out \in SuccessOutputs : ProcessExitZero(id, out)
  \/ \E id \in IDs : ProcessExitNonZero(id)

SpecShutdown == Init /\ [][NextShutdown]_vars

\* C28: once the service has exited, no external process it started is
\* still running.
C28_ShutdownCancelsProcess ==
  ~up => \A id \in IDs : proc[id] # "running"

(* ============================== no retry =============================== *)
\* The states of the external process of a job once cmd.CombinedOutput has
\* tried to start it
Launched == {"running", "start_failed", "ctx_done"}

\* C29: the external process of a job is launched at most once: a step
\* that launches it (or fails to) finds a job whose process was never
\* launched, a job whose process was launched never comes back to the
\* point of launching it, and a Failed job stays Failed.
C29_NoRetry ==
  [][\A id \in IDs :
       /\ (proc'[id] \in Launched /\ proc'[id] # proc[id]) =>
            proc[id] = "none"
       /\ proc[id] # "none" =>
            proc'[id] # "none" /\ pc'[id] \notin {"macro", "start"}
       /\ HasStatus(id, StatusFailed) =>
            /\ HasStatus(id, StatusFailed)'
            /\ pc'[id] \in {"pfa_returned_err", "done"}]_vars

\* The process of a job exited with an error and the job ended Failed
C29_Witness ==
  \E id \in IDs :
    /\ proc[id] = "exit_nonzero"
    /\ pc[id] = "done"
    /\ HasStatus(id, StatusFailed)

(* ============================ the deadline ============================= *)
\* C30: the timeout of a job is armed only once its artifact has been
\* persisted, and it has not expired as long as the external process has
\* not been invoked.
C30_DeadlineFromInvocation ==
  \A id \in IDs :
    /\ ctx[id] = "armed" => saved[id] = "ok"
    /\ ctx[id] = "expired" => proc[id] # "none"

(* ========================= two jobs side by side ======================= *)
\* Two accepted and answered submissions, each run to its end by its own
\* goroutine, in any interleaving, with the external processes and the
\* timeouts.  The clock stands still and no status is requested.
PairUpload(n) ==
  IF n = 1 THEN [present |-> TRUE, ext |-> ".jpg", size |-> 40000]
  ELSE [present |-> TRUE, ext |-> ".PNG", size |-> 120000]

PairOutputs == {OutEmpty, OutWellFormed}

InitPair ==
  /\ results = << >>
  /\ issued = MaxSubmissions
  /\ hpc = [id \in SubmitIDs |-> "returned"]
  /\ pc = [id \in SubmitIDs |-> "insert"]
  /\ upload = [id \in SubmitIDs |->
                 PairUpload(CHOOSE n \in 1..MaxSubmissions : uuidNew(n) = id)]
  /\ ctx = [id \in SubmitIDs |-> "none"]
  /\ saved = [id \in SubmitIDs |-> "none"]
  /\ macro = [id \in SubmitIDs |-> "none"]
  /\ proc = [id \in SubmitIDs |-> "none"]
  /\ output = [id \in SubmitIDs |-> << >>]
  /\ startTime = [id \in SubmitIDs |-> 0]
  /\ analysisTime = [id \in SubmitIDs |-> 0]
  /\ retErr = [id \in SubmitIDs |-> Nil]
  /\ rejected = ""
  /\ clock = 0
  /\ rd = IdleReader
  /\ up = TRUE
  /\ mutex = FreeMutex

NextPair ==
  \/ \E id \in SubmitIDs : Runner(id)
  \/ \E id \in SubmitIDs, out \in PairOutputs : ProcessExitZero(id, out)
  \/ \E id \in SubmitIDs : ProcessExitNonZero(id)
  \/ \E id \in SubmitIDs : DeadlineExpires(id)

SpecPair == InitPair /\ [][NextPair]_vars

\* C31: a step of the runner of job a (the insertion, the path update, the
\* write of the metrics, the transition to Completed or to Failed) leaves
\* the record of every other job b in the store and as it was.
C31_OnlyOwnRecordWritten ==
  [][\A a \in SubmitIDs, b \in SubmitIDs :
       (a # b /\ pc'[a] # pc[a] /\ b \in DOMAIN results) =>
         /\ b \in DOMAIN results'
         /\ results'[b] = results[b]]_vars

\* Both jobs are over, the first Completed with its metrics and the second
\* Failed
C31_Witness ==
  /\ DOMAIN results = {uuidNew(1), uuidNew(2)}
  /\ pc[uuidNew(1)] = "done" /\ pc[uuidNew(2)] = "done"
  /\ results[uuidNew(1)].Status = StatusCompleted
  /\ results[uuidNew(1)].PurityPercentage = 85500
  /\ results[uuidNew(2)].Status = StatusFailed

(* ========================= the mineral contents ======================== *)
\* The last three assignments of the locked section of parseFijiResults in
\* float64, on their own: the record of a job holds an impurity content
\* parsed from a line "impurity_content:<tenths>/10", as a float64; one
\* step sets the three mineral contents, the next marks the job completed.
parseFijiResults_minerals(id) ==
  /\ pc[id] = "minerals"
  /\ results' = [results EXCEPT
       ![id].CalciteContent =
          F64Mul(results[id].ImpurityContent, F64Ratio(3, 10)),
       ![id].QuartzContent =
          F64Mul(results[id].ImpurityContent, F64Ratio(2, 10)),
       ![id].OtherMinerals =
          F64Mul(results[id].ImpurityContent, F64Ratio(5, 10))]
  /\ pc' = [pc EXCEPT ![id] = "complete"]
  /\ UNCHANGED <<issued, hpc, upload, ctx, saved, macro, proc, output,
                 startTime, analysisTime, retErr, rejected, clock, rd>>
  /\ UNCHANGED <<up, mutex>>

InitMinerals ==
  \E tenths \in 1..MaxTenths :
    LET job == uuidNew(1)
        Of(mine, other) == [id \in IDs |-> IF id = job THEN mine ELSE other]
    IN /\ results = (job :> [NewAnalysisResult(job, 0, 40000) EXCEPT
                               !.ImagePath = ImagePathOf(job, ".jpg"),
                               !.ImpurityContent = F64Ratio(tenths, 10)])
       /\ issued = 1
       /\ hpc = Of("returned", "none")
       /\ pc = Of("minerals", "none")
       /\ upload = Of([present |-> TRUE, ext |-> ".jpg", size |-> 40000],
                      NoFile)
       /\ ctx = Of("armed", "none")
       /\ saved = Of("ok", "none")
       /\ macro = Of("written", "none")
       /\ proc = Of("exit_zero", "none")
       /\ output = Of(OutEmpty, << >>)
       /\ startTime = Of(0, 0)
       /\ analysisTime = Of(0, 0)
       /\ retErr = Of(Nil, Nil)
       /\ rejected = ""
       /\ clock = 0
       /\ rd = IdleReader
       /\ up = TRUE
       /\ mutex = FreeMutex

NextMinerals ==
  \/ \E id \in IDs : parseFijiResults_minerals(id)
  \/ \E id \in IDs : performFijiAnalysis_complete(id)

SpecMinerals == InitMinerals /\ [][NextMinerals]_vars

\* C32: on a Completed record calcite is 0.3 * impurity, quartz is
\* 0.2 * impurity, other minerals is 0.5 * impurity, and calcite + quartz
\* + other minerals is the impurity content of the record.
C32_MineralsSumToImpurity ==
  \A id \in DOMAIN results :
    LET r == results[id] IN
      r.Status = StatusCompleted =>
        /\ r.CalciteContent = F64Mul(r.ImpurityContent, F64Ratio(3, 10))
        /\ r.QuartzContent = F64Mul(r.ImpurityContent, F64Ratio(2, 10))
        /\ r.OtherMinerals = F64Mul(r.ImpurityContent, F64Ratio(5, 10))
        /\ F64Add(F64Add(r.CalciteContent, r.QuartzContent), r.OtherMinerals)
             = r.ImpurityContent

\* C33: a job record is never removed from the store: no step takes an id
\* out of the store, and a status read of an id that is in the store
\* answers 200 with the record, never 404 -- so once a read of an id has
\* returned a record, every later read of that id returns one too.
C33_RecordNeverRemoved ==
  [][/\ DOMAIN results \subseteq DOMAIN results'
     /\ (rd' # rd /\ rd'.st # "idle" /\ rd'.id \in DOMAIN results)
          => rd'.code = 200]_vars

C33_Witness ==
  /\ rd.id = uuidNew(1) /\ rd.code = 200
  /\ uuidNew(1) \in DOMAIN results
  /\ results[uuidNew(1)].Status \in {StatusCompleted, StatusFailed}
  /\ pc[uuidNew(1)] = "done"

\* C34: confidence is computed from the parsed values only: a job whose
\* output has no sentinel block completes with confidence exactly 0.5
\* whatever its fallback particle count, and the confidence of every
\* Completed record is one of 0.5, 0.6, 0.7, 0.8, 0.9 and 1.0.
C34_ConfidenceFromParsedOnly ==
  \A id \in DOMAIN results :
    (Analysed(id) /\ results[id].Status = StatusCompleted) =>
      /\ results[id].Confidence =
           calculateConfidence(ParsedOf(id).results,
                               ParsedOf(id).particleCount)
      /\ ~HasStartLine(output[id]) => results[id].Confidence = F0_5
      /\ results[id].Confidence \in {TenthAsFloat(k) : k \in 5..10}

\* C35: on every Completed record purity, particle count and threshold are
\* strictly positive, whatever the process output and the artifact size: a
\* value that is missing, zero or negative in the output is replaced by a
\* fallback of at least 30 (purity), 5 (count) and 80 (threshold).
C35_PositiveOnCompleted ==
  \A id \in DOMAIN results :
    results[id].Status = StatusCompleted =>
      LET r == results[id]
          res == ParsedOf(id).results
          NotPositive(key) == MapGet(res, key) <= 0
      IN /\ r.PurityPercentage > 0
         /\ r.ParticleCount > 0
         /\ r.ThresholdValue > 0
         /\ NotPositive(<<"purity_percentage">>)
              => r.PurityPercentage >= 30 * Milli
         /\ ParsedOf(id).particleCount <= 0 => r.ParticleCount >= 5
         /\ NotPositive(<<"threshold_value">>)
              => r.ThresholdValue >= 80 * Milli

C35_Witness ==
  \E id \in DOMAIN results :
    /\ results[id].Status = StatusCompleted
    /\ output[id] = OutNonPositive
    /\ results[id].ImageSize = 0
    /\ ParsedOf(id).particleCount < 0
    /\ results[id].ParticleCount = 5
    /\ results[id].ThresholdValue = 100 * Milli
    /\ results[id].PurityPercentage >= 30 * Milli

\* C36: the return value of AnalyzeGypsumImage agrees with the final state
\* of the job: when it has returned, the error is non-nil exactly when the
\* status is Failed and nil exactly when the status is Completed, and the
\* status is never Processing.
C36_ReturnAgreesWithStatus ==
  \A id \in IDs :
    pc[id] = "done" =>
      /\ id \in DOMAIN results
      /\ results[id].Status # StatusProcessing
      /\ retErr[id] # Nil <=> results[id].Status = StatusFailed
      /\ retErr[id] = Nil <=> results[id].Status = StatusCompleted

C36_Witness ==
  \E id \in DOMAIN results :
    /\ pc[id] = "done"
    /\ proc[id] = "killed"
    /\ retErr[id] # Nil
    /\ results[id].Status = StatusFailed
    /\ results[id].Error = retErr[id]

\* C37: when neither gypsum_content nor impurity_content is parsed as a
\* positive value, the Completed record has gypsum content equal to its
\* purity (parsed or fallback) and impurity content equal to 100 minus
\* that purity, so that gypsum + impurity = 100.
C37_GypsumAndImpurityFromPurity ==
  \A id \in DOMAIN results :
    (Analysed(id) /\ results[id].Status = StatusCompleted) =>
      LET r == results[id]
          res == ParsedOf(id).results
      IN (MapGet(res, <<"gypsum_content">>) <= 0
            /\ MapGet(res, <<"impurity_content">>) <= 0) =>
           /\ r.GypsumContent = r.PurityPercentage
           /\ r.ImpurityContent = 100 * Milli - r.PurityPercentage
           /\ r.GypsumContent + r.ImpurityContent = 100 * Milli

C37_Witness ==
  \E id \in DOMAIN results :
    /\ results[id].Status = StatusCompleted
    /\ output[id] = OutNoMinerals
    /\ ParsedOf(id).results[<<"impurity_content">>] = 0 - Milli
    /\ ParsedOf(id).results[<<"gypsum_content">>] = 0
    /\ results[id].GypsumContent = 85500
    /\ results[id].ImpurityContent = 14500

HasEndLine(out) ==
  \E line \in {Split(out, NL)[i] : i \in 1..Len(Split(out, NL))} :
    TrimSpace(line) = RESULTS_END

\* C38: a block opened by a start sentinel line and never closed by an end
\* sentinel line is still parsed: every recognized key:value line after
\* the start line, up to the end of the output, gives its value to the
\* Completed record, exactly as if the block were closed at the end.
C38_UnclosedBlockParsed ==
  \A id \in DOMAIN results :
    (Analysed(id) /\ results[id].Status = StatusCompleted) =>
      LET r == results[id]
          written == [f \in WrittenMetrics |-> results[id][f]]
      IN /\ (HasStartLine(output[id]) /\ ~HasEndLine(output[id])) =>
              MetricsFrom(id, output[id] \o RESULTS_END \o <<NL>>) = written
         /\ output[id] = OutUnclosed =>
              /\ r.PurityPercentage = 90250
              /\ r.GypsumContent = 90250
              /\ r.ImpurityContent = 9750
              /\ r.ParticleCount = 12
              /\ r.ThresholdValue = 140 * Milli
              /\ r.Confidence = TenthAsFloat(7)

C38_Witness ==
  \E id \in DOMAIN results :
    /\ results[id].Status = StatusCompleted
    /\ output[id] = OutUnclosed
    /\ HasStartLine(output[id]) /\ ~HasEndLine(output[id])
    /\ results[id].ImageSize = 0
    /\ results[id].ParticleCount = 12
    /\ results[id].ThresholdValue = 140 * Milli

(* ============================ the store lock =========================== *)
\* The runners and the status calls seen from the mutex of the store: each
\* locked section of a runner is three steps (Lock is entered, Lock returns,
\* the section ends with Unlock), each status call is three steps (the call
\* enters RLock, RLock returns, the deferred RUnlock).  A runner is at one
\* of its locked sections or between two of them:
\*   "insert"        lines 48-50   the Processing record is stored
\*   "save"          lines 56-60   saveUploadedFile, no lock
\*   "image_path"    lines 63-65   ImagePath is set
\*   "fiji"          lines 115-125 the macro is written, the process runs
\*   "parse"         lines 268-315 the metrics are written
\*   "complete"      lines 138-143 the record is marked Completed
\*   "fail_save", "fail_fiji", "fail_analysis"
\*                   updateResultWithError called at line 59, 129 and 69
LockSections == {"insert", "image_path", "parse", "complete", "fail_save",
                 "fail_fiji", "fail_analysis"}

\* Where a runner is once the section has ended
AfterSection(section) ==
  CASE section = "insert" -> "save"
    [] section = "image_path" -> "fiji"
    [] section = "parse" -> "complete"
    [] section = "fail_fiji" -> "fail_analysis"
    [] OTHER -> "done"

Readers == 1..MaxReaders

lockIdle == <<results, issued, hpc, upload, ctx, saved, macro, proc, output,
              startTime, analysisTime, retErr, rejected, clock, rd, up>>

\* sync.RWMutex.Lock, first half: the writer mutex is taken (one writer at a
\* time) and new readers are kept out from now on
Lock(id) ==
  /\ pc[id] \in LockSections
  /\ mutex.w = ""
  /\ mutex' = [mutex EXCEPT !.w = id]
  /\ UNCHANGED <<pc, lockIdle>>

\* sync.RWMutex.Lock, second half: it returns once the readers that held
\* the lock have left
LockReturns(id) ==
  /\ mutex.w = id /\ ~mutex.held
  /\ mutex.r = {}
  /\ mutex' = [mutex EXCEPT !.held = TRUE]
  /\ UNCHANGED <<pc, lockIdle>>

\* A section whose end does not release the lock
Unlock_forgotten(id) ==
  /\ mutex.w = id /\ mutex.held
  /\ pc' = [pc EXCEPT ![id] = AfterSection(pc[id])]
  /\ UNCHANGED <<mutex, lockIdle>>

\* The end of a locked section: its writes are done, Unlock (deferred in
\* updateResultWithError, explicit elsewhere) releases the lock
Unlock(id) ==
  /\ mutex.w = id /\ mutex.held
  /\ mutex' = [mutex EXCEPT !.w = "", !.held = FALSE]
  /\ pc' = [pc EXCEPT ![id] = AfterSection(pc[id])]
  /\ UNCHANGED lockIdle

\* saveUploadedFile returns, with or without an error
saveUploadedFile(id, ok) ==
  /\ pc[id] = "save"
  /\ pc' = [pc EXCEPT ![id] = IF ok THEN "image_path" ELSE "fail_save"]
  /\ UNCHANGED <<mutex, lockIdle>>

\* performFijiAnalysis up to its first locked section: the macro cannot be
\* written, the process fails or is killed, or it exits with status 0
performFijiAnalysis_run(id, outcome) ==
  /\ pc[id] = "fiji"
  /\ pc' = [pc EXCEPT ![id] = CASE outcome = "macro_failed" -> "fail_analysis"
                                [] outcome = "failed" -> "fail_fiji"
                                [] OTHER -> "parse"]
  /\ UNCHANGED <<mutex, lockIdle>>

\* A status request arrives and its goroutine calls RLock
StatusCall(r) ==
  /\ r \notin mutex.rq \cup mutex.r
  /\ mutex' = [mutex EXCEPT !.rq = @ \cup {r}]
  /\ UNCHANGED <<pc, lockIdle>>

\* sync.RWMutex.RLock returns unless a writer is inside Lock
RLock(r) ==
  /\ r \in mutex.rq
  /\ mutex.w = ""
  /\ mutex' = [mutex EXCEPT !.rq = @ \ {r}, !.r = @ \cup {r}]
  /\ UNCHANGED <<pc, lockIdle>>

\* GetAnalysisStatus returns: the deferred RUnlock runs
RUnlock(r) ==
  /\ r \in mutex.r
  /\ mutex' = [mutex EXCEPT !.r = @ \ {r}]
  /\ UNCHANGED <<pc, lockIdle>>

NextLock ==
  \/ \E id \in SubmitIDs : Lock(id)
  \/ \E id \in SubmitIDs : LockReturns(id)
  \/ \E id \in SubmitIDs : Unlock(id)
  \/ \E id \in SubmitIDs, ok \in BOOLEAN : saveUploadedFile(id, ok)
  \/ \E id \in SubmitIDs, outcome \in {"ok", "failed", "macro_failed"} :
       performFijiAnalysis_run(id, outcome)
  \/ \E r \in Readers : StatusCall(r)
  \/ \E r \in Readers : RLock(r)
  \/ \E r \in Readers : RUnlock(r)

\* A goroutine that can run does run, and the mutex wakes a goroutine that
\* waits for it: the steps of the mutex and the ends of the locked sections
\* are weakly fair.  Nothing is assumed of the steps that hold no lock nor
\* of the arrival of status requests.
FairLock ==
  /\ InitPair
  /\ [][NextLock]_vars
  /\ \A id \in SubmitIDs :
       WF_vars(Lock(id)) /\ WF_vars(LockReturns(id)) /\ WF_vars(Unlock(id))
  /\ \A r \in Readers : WF_vars(RLock(r)) /\ WF_vars(RUnlock(r))

\* C39: the store lock is never held forever.  A runner that has returned
\* holds no lock; a runner that is at a locked section, waiting for the
\* lock or holding it, leaves that section; and a status call that has
\* entered RLock returns, whatever the other runners and readers do.
C39_LockNeverHeldForever ==
  /\ [](\A id \in SubmitIDs : pc[id] = "done" => mutex.w # id)
  /\ \A id \in SubmitIDs : \A section \in LockSections :
       (pc[id] = section) ~> (pc[id] # section)
  /\ \A r \in Readers :
       (r \in mutex.rq \cup mutex.r) ~> (r \notin mutex.rq \cup mutex.r)

C39_Witness ==
  \E id \in SubmitIDs, other \in SubmitIDs, r \in Readers, q \in Readers :
    /\ id # other /\ r # q
    /\ pc[id] = "parse" /\ mutex.w = id /\ ~mutex.held
    /\ pc[other] = "fail_analysis"
    /\ r \in mutex.r
    /\ q \in mutex.rq

\* C40: in estimatePurityFromImage the base purity 60 + hash % 35, before
\* the size adjustment and the clamp, lies between 60 and 95 for every
\* size and path, also when the rolling hash has wrapped around.
C40_BasePurityInRange ==
  \A id \in DOMAIN results :
    Analysed(id) =>
      InRange(BasePurity(results[id].ImageSize, results[id].ImagePath),
              60 * Milli, 95 * Milli)

====
